---------------------------- MODULE Spec2Model ----------------------------
(***************************************************************************)
(* Model of the prompt-pidgeon data-model layer: the canonical Prompt, the *)
(* TagFilter, the platform adapters and the Langfuse source record.        *)
(*                                                                         *)
(* Representation of Python values                                         *)
(*   - a str that the code inspects character by character (a prompt name, *)
(*     a derived filename, a command) is a sequence of code points, each   *)
(*     code point being a one-token TLA+ string; len(s) is Len(s);         *)
(*   - a str the code only copies or compares as a whole (content, tag,    *)
(*     id) is a TLA+ string;                                               *)
(*   - rendered text (a frontmatter block) is a TLA+ string built by \o;   *)
(*   - list[T] is a sequence, set(l) is ToSet(l), dict is the sequence of   *)
(*     its items in insertion order;                                       *)
(*   - Optional[T] is NoneVal or Some(v).                                  *)
(***************************************************************************)
EXTENDS Integers, Sequences, FiniteSets, TLC

VARIABLES
    prompt,      \* the canonical Prompt under conversion / query (or NoneVal)
    tagFilter,   \* the TagFilter (or NoneVal)
    call,        \* the last method call on prompt/tagFilter/cursor: op, arg, ret
    claude,      \* ClaudeCodePrompt built from prompt (or NoneVal)
    cursor,      \* CursorPrompt (or NoneVal)
    filesystem,  \* FilesystemPrompt built from prompt (or NoneVal)
    owuUser,     \* OpenWebUIUserPrompt built from prompt (or NoneVal)
    owuModel,    \* OpenWebUIModel built from prompt (or NoneVal)
    langfuse,    \* the LangfusePrompt source record (or NoneVal)
    universal,   \* list of Prompts returned by to_universal_prompt, in call order
    issued,      \* identifiers that exist so far (uuid4 never returns one of them)
    sinkConfig,  \* the FilesystemSinkConfig (or NoneVal)
    env,         \* the process environment: home and cwd, or environ, .env and files
    config,      \* the PidgeonConfig (or NoneVal)
    manager,     \* the ConfigManager: config_path and env_settings (or NoneVal)
    script,      \* the end-to-end sync script run: position, work lists (or NoneVal)
    requests     \* the HTTP / SDK requests issued so far, in order

vars == <<prompt, tagFilter, call, claude, cursor, filesystem, owuUser,
          owuModel, langfuse, universal, issued, sinkConfig, env, config,
          manager, script, requests>>

adapterVars == <<claude, cursor, filesystem, owuUser, owuModel>>
langfuseVars == <<langfuse, universal, issued>>
configVars == <<sinkConfig, env, config>>
runVars == <<manager, script, requests>>

-----------------------------------------------------------------------------
(* Bounds *)

MaxPromptTags == 2
MaxFilterTags == 2
MaxArgTags == 2
MaxNameLen == 2
MaxLabels == 2
MaxLangfuseTags == 2
MaxConversions == 2
MaxGlobs == 2
MaxMetadata == 2
MaxSources == 2
MaxSinks == 2
MaxJobs == 2
MaxEnvVars == 2
MaxRemotePrompts == 2

(* Generic helpers *)

NoneVal == [isNone |-> TRUE]
Some(v) == [isNone |-> FALSE, value |-> v]

ToSet(l) == {l[i] : i \in DOMAIN l}

SeqsUpTo(S, n) == UNION {[1..k -> S] : k \in 0..n}

\* dict: insertion-ordered sequence of [k, v] items
EmptyDict == <<>>

NoCall == [op |-> "none"]

-----------------------------------------------------------------------------
(* Canonical model: Prompt and TagFilter (models/core.py) *)

Tags == {"a", "b"}

\* Prompt(...) with the field defaults of the class
Prompt(id, name, content, tags) ==
    [id |-> id, name |-> name, content |-> content, tags |-> tags,
     created_at |-> 0, updated_at |-> 0, version |-> "1",
     source_platform |-> NoneVal, source_id |-> NoneVal,
     metadata |-> EmptyDict]

TagFilter(include_tags, exclude_tags, require_all) ==
    [include_tags |-> include_tags, exclude_tags |-> exclude_tags,
     require_all |-> require_all]

\* return tag in self.tags
has_tag(self, tag) == \E i \in DOMAIN self.tags : self.tags[i] = tag

\* faulty variant: subset test in place of the intersection test
has_any_tags_subset(self, tags) == ToSet(tags) \subseteq ToSet(self.tags)

\* return bool(set(tags) & set(self.tags))
has_any_tags(self, tags) == (ToSet(tags) \cap ToSet(self.tags)) # {}

\* return set(tags).issubset(set(self.tags))
has_all_tags(self, tags) == ToSet(tags) \subseteq ToSet(self.tags)

\* faulty variant: the include test runs before the exclude test
matches_include_first(self, p) ==
    IF self.include_tags = <<>> THEN TRUE
    ELSE IF has_any_tags(p, self.exclude_tags) THEN FALSE
    ELSE IF self.require_all THEN has_all_tags(p, self.include_tags)
    ELSE has_any_tags(p, self.include_tags)

\* faulty variant: require_all read the wrong way round
matches_require_flipped(self, p) ==
    IF has_any_tags(p, self.exclude_tags) THEN FALSE
    ELSE IF self.include_tags = <<>> THEN TRUE
    ELSE IF self.require_all THEN has_any_tags(p, self.include_tags)
    ELSE has_all_tags(p, self.include_tags)

\* TagFilter.matches
matches(self, p) ==
    IF has_any_tags(p, self.exclude_tags) THEN FALSE
    ELSE IF self.include_tags = <<>> THEN TRUE
    ELSE IF self.require_all THEN has_all_tags(p, self.include_tags)
    ELSE has_any_tags(p, self.include_tags)

-----------------------------------------------------------------------------
(* Specification SpecTags: tag queries and the tag filter *)

InitTags ==
    /\ \E ts \in SeqsUpTo(Tags, MaxPromptTags) :
           prompt = Prompt("u0", <<"a">>, "text", ts)
    /\ \E inc \in SeqsUpTo(Tags, MaxFilterTags),
          exc \in SeqsUpTo(Tags, MaxFilterTags), ra \in BOOLEAN :
           tagFilter = TagFilter(inc, exc, ra)
    /\ call = NoCall
    /\ claude = NoneVal /\ cursor = NoneVal /\ filesystem = NoneVal
    /\ owuUser = NoneVal /\ owuModel = NoneVal
    /\ langfuse = NoneVal /\ universal = <<>> /\ issued = {"u0"}
    /\ sinkConfig = NoneVal /\ env = NoneVal /\ config = NoneVal
    /\ manager = NoneVal /\ script = NoneVal /\ requests = <<>>

HasTag ==
    /\ \E t \in Tags :
           call' = [op |-> "has_tag", arg |-> t, ret |-> has_tag(prompt, t)]
    /\ UNCHANGED <<prompt, tagFilter, adapterVars, langfuseVars, configVars, runVars>>

HasAnyTags ==
    /\ \E ts \in SeqsUpTo(Tags, MaxArgTags) :
           call' = [op |-> "has_any_tags", arg |-> ts,
                    ret |-> has_any_tags(prompt, ts)]
    /\ UNCHANGED <<prompt, tagFilter, adapterVars, langfuseVars, configVars, runVars>>

HasAllTags ==
    /\ \E ts \in SeqsUpTo(Tags, MaxArgTags) :
           call' = [op |-> "has_all_tags", arg |-> ts,
                    ret |-> has_all_tags(prompt, ts)]
    /\ UNCHANGED <<prompt, tagFilter, adapterVars, langfuseVars, configVars, runVars>>

Matches ==
    /\ call' = [op |-> "matches", arg |-> prompt.id,
                ret |-> matches(tagFilter, prompt)]
    /\ UNCHANGED <<prompt, tagFilter, adapterVars, langfuseVars, configVars, runVars>>

NextTags == HasTag \/ HasAnyTags \/ HasAllTags \/ Matches

SpecTags == InitTags /\ [][NextTags]_vars

-----------------------------------------------------------------------------
(* Claims on the tag filter *)

\* position-wise reading of "the two lists share a tag"
Share(l1, l2) == \E i \in DOMAIN l1 : \E j \in DOMAIN l2 : l1[i] = l2[j]

\* position-wise reading of "every element of l1 occurs in l2"
AllIn(l1, l2) == \A i \in DOMAIN l1 : \E j \in DOMAIN l2 : l1[i] = l2[j]

\* C1: whenever the prompt's tags and the filter's exclude_tags share a tag,
\* matches returns False, whatever include_tags and require_all are.
C1_ExclusionWins ==
    (call.op = "matches" /\ Share(prompt.tags, tagFilter.exclude_tags))
        => call.ret = FALSE

\* C1 witness: an excluded prompt that carries every (non-empty) include tag
C1_Witness ==
    /\ call.op = "matches"
    /\ Share(prompt.tags, tagFilter.exclude_tags)
    /\ tagFilter.include_tags # <<>>
    /\ AllIn(tagFilter.include_tags, prompt.tags)
    /\ call.ret = FALSE

\* C2: for a prompt sharing no tag with exclude_tags, matches is True when
\* include_tags is empty, otherwise "all include tags present" under
\* require_all and "some include tag present" without it.
C2_IncludeRule ==
    (call.op = "matches" /\ ~Share(prompt.tags, tagFilter.exclude_tags))
        => call.ret =
             (IF Len(tagFilter.include_tags) = 0 THEN TRUE
              ELSE IF tagFilter.require_all
                   THEN AllIn(tagFilter.include_tags, prompt.tags)
                   ELSE Share(tagFilter.include_tags, prompt.tags))

\* C2 witness: require_all decides the outcome (some but not all include
\* tags are carried) and the filter rejects
C2_Witness ==
    /\ call.op = "matches"
    /\ ~Share(prompt.tags, tagFilter.exclude_tags)
    /\ tagFilter.require_all
    /\ Share(tagFilter.include_tags, prompt.tags)
    /\ ~AllIn(tagFilter.include_tags, prompt.tags)
    /\ call.ret = FALSE

\* C3: has_any_tags(ts) is true exactly when ts and the prompt's tags have
\* a common element, has_all_tags(ts) exactly when every element of ts is a
\* tag of the prompt; so has_all_tags([]) is true and has_any_tags([]) false.
C3_AnyAll ==
    /\ call.op = "has_any_tags" =>
          /\ call.ret = Share(call.arg, prompt.tags)
          /\ call.arg = <<>> => call.ret = FALSE
    /\ call.op = "has_all_tags" =>
          /\ call.ret = AllIn(call.arg, prompt.tags)
          /\ call.arg = <<>> => call.ret = TRUE

\* C3 witness: has_any_tags([]) on a prompt without tags
C3_Witness ==
    /\ call.op = "has_any_tags"
    /\ call.arg = <<>>
    /\ prompt.tags = <<>>
    /\ call.ret = FALSE

-----------------------------------------------------------------------------
(* Python str operations used by the adapters *)

\* code points a prompt name is drawn from: an ASCII upper/lower pair, the
\* two characters the derivation replaces, '-' and '/', and U+0130 (LATIN
\* CAPITAL LETTER I WITH DOT ABOVE), the one code point whose str.lower()
\* is two code points long
NameChars == {"A", "a", " ", "_", "-", "/", "U+0130"}

\* str.lower() of a single code point
LowerCP(c) ==
    CASE c = "A" -> <<"a">>
      [] c = "T" -> <<"t">>
      [] c = "F" -> <<"f">>
      [] c = "U+0130" -> <<"i", "U+0307">>
      [] OTHER -> <<c>>

RECURSIVE lower_identity(_)
\* faulty variant: the .lower() call is missing
lower_identity(s) == IF s = <<>> THEN <<>> ELSE <<Head(s)>> \o lower_identity(Tail(s))

RECURSIVE lower(_)
\* str.lower(): the lowercase images of the code points, concatenated
lower(s) == IF s = <<>> THEN <<>> ELSE LowerCP(Head(s)) \o lower(Tail(s))

RECURSIVE replace_first(_, _, _)
\* faulty variant: only the first occurrence is replaced (str.replace(old, new, 1))
replace_first(s, old, new) ==
    IF s = <<>> THEN <<>>
    ELSE IF Head(s) = old THEN <<new>> \o Tail(s)
    ELSE <<Head(s)>> \o replace_first(Tail(s), old, new)

\* str.replace(old, new) for one-character old and new: every occurrence
replace(s, old, new) == [i \in DOMAIN s |-> IF s[i] = old THEN new ELSE s[i]]

\* datetime.isoformat(): an injective rendering of the timestamp
isoformat(t) == <<"iso8601", t>>

\* values stored in a dict[str, Any], tagged with their Python type
PyStr(s) == [type |-> "str", v |-> s]
PyList(l) == [type |-> "list", v |-> l]
PyNone == [type |-> "NoneType"]
PyOpt(o) == IF o.isNone THEN PyNone ELSE PyStr(o.value)

Item(k, v) == [k |-> k, v |-> v]

DictKeys(d) == {d[i].k : i \in DOMAIN d}

\* d[k] = v: an existing key keeps its position, a new key is appended
DictSet(d, k, v) ==
    IF k \in DictKeys(d)
    THEN [i \in DOMAIN d |-> IF d[i].k = k THEN Item(k, v) ELSE d[i]]
    ELSE Append(d, Item(k, v))

RECURSIVE DictMerge(_, _)
\* {**d, **extra}: the items of extra are set in order, later keys win
DictMerge(d, extra) ==
    IF extra = <<>> THEN d
    ELSE DictMerge(DictSet(d, Head(extra).k, Head(extra).v), Tail(extra))

\* d[k] for a key of d
DictGet(d, k) == d[CHOOSE i \in DOMAIN d : d[i].k = k].v

-----------------------------------------------------------------------------
(* Platform adapters (models/platforms) *)

\* an adapter record together with the arguments it was built from
Built(rec, args) == [isNone |-> FALSE, value |-> rec, args |-> args]

SyncScope(scope_type, path) == [scope_type |-> scope_type, path |-> path]

\* ClaudeCodePrompt.from_universal_prompt
ClaudeCodePrompt_from_universal_prompt(p, scope) ==
    LET filename == replace(replace(lower(p.name), " ", "-"), "_", "-")
    IN  [filename |-> filename, content |-> p.content, scope |-> scope]

\* faulty variant: the description is the derived name
CursorPrompt_description_derived(p, always_apply) ==
    LET filename == replace(replace(lower(p.name), " ", "-"), "_", "-")
    IN  [filename |-> filename, content |-> p.content,
         description |-> Some(filename), globs |-> <<>>,
         always_apply |-> always_apply]

\* CursorPrompt.from_universal_prompt
CursorPrompt_from_universal_prompt(p, always_apply) ==
    LET filename == replace(replace(lower(p.name), " ", "-"), "_", "-")
        description == p.name
    IN  [filename |-> filename, content |-> p.content,
         description |-> Some(description), globs |-> <<>>,
         always_apply |-> always_apply]

\* faulty variant: the named fields are written after the extra metadata
FilesystemPrompt_fixed_fields_win(p) ==
    LET filename == replace(replace(lower(p.name), " ", "-"), "_", "-")
        metadata ==
            DictMerge(p.metadata,
                      <<Item("id", PyStr(p.id)),
                        Item("name", PyStr(p.name)),
                        Item("tags", PyList(p.tags)),
                        Item("created_at", PyStr(isoformat(p.created_at))),
                        Item("updated_at", PyStr(isoformat(p.updated_at))),
                        Item("version", PyStr(p.version)),
                        Item("source_platform", PyOpt(p.source_platform)),
                        Item("source_id", PyOpt(p.source_id))>>)
    IN  [filename |-> filename, content |-> p.content,
         metadata |-> metadata, file_extension |-> "md"]

\* FilesystemPrompt.from_universal_prompt
FilesystemPrompt_from_universal_prompt(p) ==
    LET filename == replace(replace(lower(p.name), " ", "-"), "_", "-")
        metadata ==
            DictMerge(<<Item("id", PyStr(p.id)),
                        Item("name", PyStr(p.name)),
                        Item("tags", PyList(p.tags)),
                        Item("created_at", PyStr(isoformat(p.created_at))),
                        Item("updated_at", PyStr(isoformat(p.updated_at))),
                        Item("version", PyStr(p.version)),
                        Item("source_platform", PyOpt(p.source_platform)),
                        Item("source_id", PyOpt(p.source_id))>>,
                      p.metadata)
    IN  [filename |-> filename, content |-> p.content,
         metadata |-> metadata, file_extension |-> "md"]

\* faulty variant: the title is the derived name instead of the original name
OpenWebUIUserPrompt_title_derived(p, command_prefix) ==
    LET command_name == replace(replace(lower(p.name), " ", "-"), "_", "-")
        command == <<"/">> \o command_prefix \o <<"-">> \o command_name
    IN  [command |-> command, title |-> command_name, content |-> p.content,
         access_control |-> EmptyDict]

\* OpenWebUIUserPrompt.from_universal_prompt
OpenWebUIUserPrompt_from_universal_prompt(p, command_prefix) ==
    LET command_name == replace(replace(lower(p.name), " ", "-"), "_", "-")
        command == <<"/">> \o command_prefix \o <<"-">> \o command_name
    IN  [command |-> command, title |-> p.name, content |-> p.content,
         access_control |-> EmptyDict]

\* faulty variant: the underscore replacement is missing in the model id
OpenWebUIModel_no_underscore(p, base_model_id, model_prefix, base_model_short) ==
    LET prompt_base == replace(lower(p.name), " ", "-")
        model_id == model_prefix \o <<"-">> \o prompt_base \o <<"-">> \o base_model_short
    IN  [id |-> model_id, name |-> model_id, base_model_id |-> base_model_id,
         params |-> <<Item("system", p.content)>>, is_active |-> TRUE,
         meta |-> EmptyDict, tags |-> <<"prompt-pidgeon-managed">> \o p.tags]

\* faulty variant: the managed tag is not added when the prompt carries it
OpenWebUIModel_managed_once(p, base_model_id, model_prefix, base_model_short) ==
    LET prompt_base == replace(replace(lower(p.name), " ", "-"), "_", "-")
        model_id == model_prefix \o <<"-">> \o prompt_base \o <<"-">> \o base_model_short
    IN  [id |-> model_id, name |-> model_id, base_model_id |-> base_model_id,
         params |-> <<Item("system", p.content)>>, is_active |-> TRUE,
         meta |-> EmptyDict,
         tags |-> IF "prompt-pidgeon-managed" \in ToSet(p.tags) THEN p.tags
                  ELSE <<"prompt-pidgeon-managed">> \o p.tags]

\* OpenWebUIModel.from_universal_prompt
OpenWebUIModel_from_universal_prompt(p, base_model_id, model_prefix, base_model_short) ==
    LET prompt_base == replace(replace(lower(p.name), " ", "-"), "_", "-")
        model_id == model_prefix \o <<"-">> \o prompt_base \o <<"-">> \o base_model_short
    IN  [id |-> model_id, name |-> model_id, base_model_id |-> base_model_id,
         params |-> <<Item("system", p.content)>>, is_active |-> TRUE,
         meta |-> EmptyDict, tags |-> <<"prompt-pidgeon-managed">> \o p.tags]

\* default values of the keyword parameters
DefaultCommandPrefix == <<"l", "f">>
DefaultModelPrefix == <<"s", "m", "e">>
DefaultBaseModelShort == <<"d", "e", "f", "a", "u", "l", "t">>

\* a keyword argument that is omitted takes the parameter's default
ArgOr(arg, default) == IF arg.isNone THEN default ELSE arg.value

-----------------------------------------------------------------------------
(* Specification SpecNames: the five adapters applied to one prompt *)

Contents == {"text", "  {{var}} \n"}

Scopes ==
    {SyncScope("global", NoneVal),
     SyncScope("project", Some(<<"/", "p">>)),
     SyncScope("project", NoneVal)}

InitNames ==
    /\ \E n \in SeqsUpTo(NameChars, MaxNameLen), c \in Contents :
           prompt = Prompt("u0", n, c, <<"a", "b">>)
    /\ tagFilter = NoneVal
    /\ call = NoCall
    /\ claude = NoneVal /\ cursor = NoneVal /\ filesystem = NoneVal
    /\ owuUser = NoneVal /\ owuModel = NoneVal
    /\ langfuse = NoneVal /\ universal = <<>> /\ issued = {"u0"}
    /\ sinkConfig = NoneVal /\ env = NoneVal /\ config = NoneVal
    /\ manager = NoneVal /\ script = NoneVal /\ requests = <<>>

ClaudeFromUniversal ==
    /\ \E scope \in Scopes :
           claude' = Built(ClaudeCodePrompt_from_universal_prompt(prompt, scope),
                           [scope |-> scope])
    /\ UNCHANGED <<prompt, tagFilter, call, cursor, filesystem, owuUser,
                   owuModel, langfuseVars, configVars, runVars>>

CursorFromUniversal ==
    /\ \E always_apply \in BOOLEAN :
           cursor' = Built(CursorPrompt_from_universal_prompt(prompt, always_apply),
                           [always_apply |-> always_apply])
    /\ UNCHANGED <<prompt, tagFilter, call, claude, filesystem, owuUser,
                   owuModel, langfuseVars, configVars, runVars>>

\* faulty variant: the prompt's metadata is moved into the record
FilesystemFromUniversal_consuming ==
    /\ filesystem' = Built(FilesystemPrompt_from_universal_prompt(prompt), <<>>)
    /\ prompt' = [prompt EXCEPT !.metadata = EmptyDict]
    /\ UNCHANGED <<tagFilter, call, claude, cursor, owuUser,
                   owuModel, langfuseVars, configVars, runVars>>

FilesystemFromUniversal ==
    /\ filesystem' = Built(FilesystemPrompt_from_universal_prompt(prompt), <<>>)
    /\ UNCHANGED <<prompt, tagFilter, call, claude, cursor, owuUser,
                   owuModel, langfuseVars, configVars, runVars>>

OwuUserFromUniversal ==
    /\ \E command_prefix \in {NoneVal, Some(<<"x">>)} :
           owuUser' = Built(OpenWebUIUserPrompt_from_universal_prompt(
                                prompt, ArgOr(command_prefix, DefaultCommandPrefix)),
                            [command_prefix |-> command_prefix])
    /\ UNCHANGED <<prompt, tagFilter, call, claude, cursor, filesystem,
                   owuModel, langfuseVars, configVars, runVars>>

OwuModelFromUniversal ==
    /\ \E kw \in {[model_prefix |-> NoneVal, base_model_short |-> NoneVal],
                  [model_prefix |-> Some(<<"m">>), base_model_short |-> Some(<<"g">>)]} :
           owuModel' = Built(OpenWebUIModel_from_universal_prompt(
                                 prompt, "gpt-4",
                                 ArgOr(kw.model_prefix, DefaultModelPrefix),
                                 ArgOr(kw.base_model_short, DefaultBaseModelShort)),
                             kw)
    /\ UNCHANGED <<prompt, tagFilter, call, claude, cursor, filesystem,
                   owuUser, langfuseVars, configVars, runVars>>

NextNames ==
    \/ ClaudeFromUniversal
    \/ CursorFromUniversal
    \/ FilesystemFromUniversal
    \/ OwuUserFromUniversal
    \/ OwuModelFromUniversal

SpecNames == InitNames /\ [][NextNames]_vars

-----------------------------------------------------------------------------
(* Claims on the name derivation and the adapters *)

\* Unicode data for the code points of NameChars
UpperCPs == {"A", "U+0130"}
LowerForm(c) == IF c = "A" THEN <<"a">> ELSE IF c = "U+0130" THEN <<"i", "U+0307">> ELSE <<c>>

\* what one code point of the name becomes in the derived name
Expect(c) ==
    IF c \in {" ", "_"} THEN <<"-">>
    ELSE IF c \in UpperCPs THEN LowerForm(c)
    ELSE <<c>>

RECURSIVE DerivedName(_)
\* the derived name, read off the name code point by code point
DerivedName(n) == IF n = <<>> THEN <<>> ELSE Expect(Head(n)) \o DerivedName(Tail(n))

HasCP(n, S) == \E i \in DOMAIN n : n[i] \in S

CountCP(n, c) == Cardinality({i \in DOMAIN n : n[i] = c})

\* the (filename-bearing) adapter records built so far
Filenames ==
    (IF claude.isNone THEN {} ELSE {claude.value.filename})
    \cup (IF cursor.isNone THEN {} ELSE {cursor.value.filename})
    \cup (IF filesystem.isNone THEN {} ELSE {filesystem.value.filename})

\* C4: the name derivation is idempotent: deriving from a prompt whose name
\* is an already derived name gives that name back.
C4_Idempotent ==
    /\ ~claude.isNone =>
          ClaudeCodePrompt_from_universal_prompt(
              [prompt EXCEPT !.name = claude.value.filename],
              claude.value.scope).filename = claude.value.filename
    /\ ~cursor.isNone =>
          CursorPrompt_from_universal_prompt(
              [prompt EXCEPT !.name = cursor.value.filename],
              cursor.value.always_apply).filename = cursor.value.filename
    /\ ~filesystem.isNone =>
          FilesystemPrompt_from_universal_prompt(
              [prompt EXCEPT !.name = filesystem.value.filename]).filename
              = filesystem.value.filename

\* C4 witness: a name the derivation changes (a space and an underscore),
\* converted by the three file adapters
C4_Witness ==
    /\ ~claude.isNone /\ ~cursor.isNone /\ ~filesystem.isNone
    /\ HasCP(prompt.name, {" "}) /\ HasCP(prompt.name, {"_"})
    /\ claude.value.filename # prompt.name

\* C5 as stated: the derived name has the length of the name and differs
\* from it, position by position, only at uppercase letters (lowercased),
\* spaces and underscores ('-').
C5_SameLengthPositionwise ==
    \A f \in Filenames :
        /\ Len(f) = Len(prompt.name)
        /\ \A i \in DOMAIN prompt.name : <<f[i]>> = Expect(prompt.name[i])

\* C5 amended: the derived name is the name with every code point replaced
\* by '-' (space, underscore), by its lowercase form (uppercase letter) or
\* by itself; the lowercase form of U+0130 is the two code points 'i'
\* U+0307, so the length grows by one per U+0130 and is the name's length
\* exactly for names without U+0130, where the derived name differs from
\* the name position by position only as C5 says.
C5_DerivedCodePointwise ==
    \A f \in Filenames :
        /\ f = DerivedName(prompt.name)
        /\ Len(f) = Len(prompt.name) + CountCP(prompt.name, "U+0130")
        /\ ~HasCP(prompt.name, {"U+0130"}) =>
              \A i \in DOMAIN prompt.name :
                  f[i] = (IF prompt.name[i] \in {" ", "_"} THEN "-"
                          ELSE IF prompt.name[i] = "A" THEN "a"
                          ELSE prompt.name[i])

\* C5 witness: a namespaced name with U+0130, converted by the filesystem
\* adapter: '/' is kept and the filename is one code point longer
C5_Witness ==
    /\ ~filesystem.isNone
    /\ prompt.name = <<"/", "U+0130">>
    /\ filesystem.value.filename = <<"/", "i", "U+0307">>

\* C6: the five adapters derive the same name N from the same prompt: the
\* three filenames are N, the command is '/' + prefix + '-' + N ('lf' when
\* the prefix is omitted) and the model id and name are
\* model_prefix + '-' + N + '-' + base_model_short ('sme', 'default').
C6_SameDerivation ==
    LET N == DerivedName(prompt.name) IN
    /\ \A f \in Filenames : f = N
    /\ ~owuUser.isNone =>
          /\ owuUser.value.command =
                 <<"/">> \o ArgOr(owuUser.args.command_prefix, <<"l", "f">>)
                         \o <<"-">> \o N
    /\ ~owuModel.isNone =>
          /\ owuModel.value.id =
                 ArgOr(owuModel.args.model_prefix, <<"s", "m", "e">>)
                 \o <<"-">> \o N \o <<"-">>
                 \o ArgOr(owuModel.args.base_model_short,
                          <<"d", "e", "f", "a", "u", "l", "t">>)
          /\ owuModel.value.name = owuModel.value.id

\* C6 witness: all five adapters applied, with default prefixes, to a name
\* holding an uppercase letter and an underscore
C6_Witness ==
    /\ ~claude.isNone /\ ~cursor.isNone /\ ~filesystem.isNone
    /\ ~owuUser.isNone /\ ~owuModel.isNone
    /\ owuUser.args.command_prefix.isNone
    /\ owuModel.args.model_prefix.isNone
    /\ prompt.name = <<"A", "_">>
    /\ owuUser.value.command = <<"/", "l", "f", "-", "a", "-">>

\* C7: every adapter copies the prompt text verbatim; the model's params are
\* {system: content}; the user prompt's title is the original name and its
\* access_control is empty.
C7_ContentVerbatim ==
    /\ ~claude.isNone => claude.value.content = prompt.content
    /\ ~cursor.isNone => cursor.value.content = prompt.content
    /\ ~filesystem.isNone => filesystem.value.content = prompt.content
    /\ ~owuUser.isNone =>
          /\ owuUser.value.content = prompt.content
          /\ owuUser.value.title = prompt.name
          /\ owuUser.value.access_control = <<>>
    /\ ~owuModel.isNone =>
          /\ Len(owuModel.value.params) = 1
          /\ owuModel.value.params[1] = [k |-> "system", v |-> prompt.content]

\* C7 witness: a text with surrounding whitespace and a name the derivation
\* changes, after all five conversions
C7_Witness ==
    /\ ~claude.isNone /\ ~cursor.isNone /\ ~filesystem.isNone
    /\ ~owuUser.isNone /\ ~owuModel.isNone
    /\ prompt.content = "  {{var}} \n"
    /\ prompt.name = <<"A", " ">>
    /\ owuUser.value.title # DerivedName(prompt.name)

-----------------------------------------------------------------------------
(* Langfuse source record (models/platforms/langfuse.py) *)

\* strings the labels and the tags of a source record are drawn from
LangfuseLabels == {"a", "b"}
LangfuseTags == {"b", "c"}

\* values uuid4() can return; an identifier of `issued` is never returned
UUIDs == {"u0", "u1", "u2", "u3"}

PyInt(n) == [type |-> "int", v |-> n]
PyDict(d) == [type |-> "dict", v |-> d]

Digit(d) == CASE d = 0 -> "0" [] d = 1 -> "1" [] d = 2 -> "2" [] d = 3 -> "3"
              [] d = 4 -> "4" [] d = 5 -> "5" [] d = 6 -> "6" [] d = 7 -> "7"
              [] d = 8 -> "8" [] d = 9 -> "9"

RECURSIVE str_int(_)
\* str(n) for a non-negative int: its decimal digits
str_int(n) == IF n < 10 THEN Digit(n) ELSE str_int(n \div 10) \o Digit(n % 10)

\* the orders in which list(set(l)) can enumerate the distinct elements of l
ListOfSet(l) ==
    {o \in [1..Cardinality(ToSet(l)) -> ToSet(l)] :
        \A i, j \in DOMAIN o : i # j => o[i] # o[j]}

LangfusePrompt(id, name, text, version, labels, tags, created_at, updated_at) ==
    [id |-> id, name |-> name, prompt |-> text, version |-> version,
     type |-> "text", labels |-> labels, tags |-> tags,
     created_at |-> created_at, updated_at |-> updated_at, config |-> EmptyDict]

\* faulty variant: labels and tags are concatenated without removing duplicates
to_universal_prompt_concat(self, new_id, all_tags) ==
    [id |-> new_id, name |-> self.name, content |-> self.prompt,
     tags |-> self.labels \o self.tags,
     created_at |-> self.created_at, updated_at |-> self.updated_at,
     version |-> str_int(self.version),
     source_platform |-> Some("langfuse"), source_id |-> Some(self.id),
     metadata |-> <<Item("langfuse_version", PyInt(self.version)),
                    Item("langfuse_type", PyStr(self.type)),
                    Item("langfuse_config", PyDict(self.config)),
                    Item("langfuse_labels", PyList(self.labels))>>]

\* faulty variant: the source record's id is reused as the canonical id
to_universal_prompt_keep_id(self, new_id, all_tags) ==
    [id |-> self.id, name |-> self.name, content |-> self.prompt,
     tags |-> all_tags,
     created_at |-> self.created_at, updated_at |-> self.updated_at,
     version |-> str_int(self.version),
     source_platform |-> Some("langfuse"), source_id |-> Some(self.id),
     metadata |-> <<Item("langfuse_version", PyInt(self.version)),
                    Item("langfuse_type", PyStr(self.type)),
                    Item("langfuse_config", PyDict(self.config)),
                    Item("langfuse_labels", PyList(self.labels))>>]

\* LangfusePrompt.to_universal_prompt, given the value new_id returned by
\* uuid4() and the list all_tags returned by list(set(labels + tags))
to_universal_prompt(self, new_id, all_tags) ==
    [id |-> new_id, name |-> self.name, content |-> self.prompt,
     tags |-> all_tags,
     created_at |-> self.created_at, updated_at |-> self.updated_at,
     version |-> str_int(self.version),
     source_platform |-> Some("langfuse"), source_id |-> Some(self.id),
     metadata |-> <<Item("langfuse_version", PyInt(self.version)),
                    Item("langfuse_type", PyStr(self.type)),
                    Item("langfuse_config", PyDict(self.config)),
                    Item("langfuse_labels", PyList(self.labels))>>]

-----------------------------------------------------------------------------
(* Specification SpecLangfuse: one source record converted repeatedly *)

InitLangfuse ==
    /\ \E id \in {"lf-123", "u0"}, version \in {12},
          labels \in SeqsUpTo(LangfuseLabels, MaxLabels),
          tags \in SeqsUpTo(LangfuseTags, MaxLangfuseTags) :
           /\ langfuse = LangfusePrompt(id, <<"a">>, "text", version,
                                        labels, tags, 1, 2)
           /\ issued = {"u0", id}
    /\ universal = <<>>
    /\ prompt = NoneVal /\ tagFilter = NoneVal /\ call = NoCall
    /\ claude = NoneVal /\ cursor = NoneVal /\ filesystem = NoneVal
    /\ owuUser = NoneVal /\ owuModel = NoneVal
    /\ sinkConfig = NoneVal /\ env = NoneVal /\ config = NoneVal
    /\ manager = NoneVal /\ script = NoneVal /\ requests = <<>>

ToUniversalPrompt ==
    /\ Len(universal) < MaxConversions
    /\ \E new_id \in UUIDs \ issued,
          all_tags \in ListOfSet(langfuse.labels \o langfuse.tags) :
           /\ universal' = Append(universal,
                                  to_universal_prompt(langfuse, new_id, all_tags))
           /\ issued' = issued \cup {new_id}
    /\ UNCHANGED <<prompt, tagFilter, call, adapterVars, langfuse, configVars, runVars>>

NextLangfuse == ToUniversalPrompt

SpecLangfuse == InitLangfuse /\ [][NextLangfuse]_vars

-----------------------------------------------------------------------------
(* Claims on the Langfuse conversion *)

\* C8: the tags of a converted prompt contain no repeated element, are as a
\* set the union of the record's labels and tags, and number the distinct
\* strings of labels and tags together.
C8_TagUnion ==
    \A n \in DOMAIN universal :
        LET t == universal[n].tags IN
        /\ \A i, j \in DOMAIN t : i # j => t[i] # t[j]
        /\ \A i \in DOMAIN t : \/ \E j \in DOMAIN langfuse.labels : langfuse.labels[j] = t[i]
                               \/ \E j \in DOMAIN langfuse.tags : langfuse.tags[j] = t[i]
        /\ \A j \in DOMAIN langfuse.labels : \E i \in DOMAIN t : t[i] = langfuse.labels[j]
        /\ \A j \in DOMAIN langfuse.tags : \E i \in DOMAIN t : t[i] = langfuse.tags[j]
        /\ Len(t) = Cardinality(ToSet(langfuse.labels) \cup ToSet(langfuse.tags))

\* C8 witness: labels=[a,b], tags=[b,c] converted to three tags
C8_Witness ==
    /\ Len(universal) >= 1
    /\ langfuse.labels = <<"a", "b">>
    /\ langfuse.tags = <<"b", "c">>
    /\ Len(universal[1].tags) = 3
    /\ ToSet(universal[1].tags) = {"a", "b", "c"}

\* C9: a conversion always mints a new id: it differs from the source
\* record's id, which is carried in source_id with source_platform
\* 'langfuse'; two conversions of the same record differ in id and agree on
\* name, content, version string, timestamps and source_id.
C9_FreshId ==
    /\ \A n \in DOMAIN universal :
          /\ universal[n].id # langfuse.id
          /\ universal[n].source_id = [isNone |-> FALSE, value |-> langfuse.id]
          /\ universal[n].source_platform = [isNone |-> FALSE, value |-> "langfuse"]
    /\ \A m, n \in DOMAIN universal :
          m # n =>
             /\ universal[m].id # universal[n].id
             /\ universal[m].name = universal[n].name
             /\ universal[m].content = universal[n].content
             /\ universal[m].version = universal[n].version
             /\ universal[m].created_at = universal[n].created_at
             /\ universal[m].updated_at = universal[n].updated_at
             /\ universal[m].source_id = universal[n].source_id

\* C9 witness: a record whose own id is a UUID, converted twice
C9_Witness ==
    /\ Len(universal) = 2
    /\ langfuse.id = "u0"
    /\ universal[1].id # universal[2].id
    /\ universal[1].version = "12"
    /\ universal[2].source_id.value = "u0"

-----------------------------------------------------------------------------
(* CursorPrompt header serialization (models/platforms/coding_assistants.py) *)

RECURSIVE Str(_)
\* the text of a code-point sequence, as it appears inside an f-string
Str(s) == IF s = <<>> THEN "" ELSE Head(s) \o Str(Tail(s))

\* str(b) for a bool
str_bool(b) == IF b THEN <<"T", "r", "u", "e">> ELSE <<"F", "a", "l", "s", "e">>

RECURSIVE join(_, _)
\* sep.join(lines)
join(sep, lines) ==
    IF lines = <<>> THEN ""
    ELSE IF Len(lines) = 1 THEN lines[1]
    ELSE lines[1] \o sep \o join(sep, Tail(lines))

\* truth value of an Optional[str]: None and '' are false
Truthy(o) == ~o.isNone /\ o.value # <<>>

RECURSIVE AppendGlobs(_, _)
\* for glob in self.globs: frontmatter_lines.append(f'  - "{glob}"')
AppendGlobs(lines, globs) ==
    IF globs = <<>> THEN lines
    ELSE AppendGlobs(Append(lines, "  - \"" \o Head(globs) \o "\""), Tail(globs))

CursorPrompt(filename, content, description, globs, always_apply) ==
    [filename |-> filename, content |-> content, description |-> description,
     globs |-> globs, always_apply |-> always_apply]

\* faulty variant: str(self.always_apply) is not lowercased
generate_frontmatter_capitalised(self) ==
    LET l0 == <<"---">>
        l1 == IF Truthy(self.description)
              THEN Append(l0, "description: \"" \o Str(self.description.value) \o "\"")
              ELSE l0
        l2 == IF self.globs # <<>>
              THEN AppendGlobs(Append(l1, "globs:"), self.globs)
              ELSE l1
        l3 == Append(l2, "alwaysApply: " \o Str(str_bool(self.always_apply)))
        l4 == Append(l3, "---")
    IN  join("\n", l4)

\* CursorPrompt.generate_frontmatter
generate_frontmatter(self) ==
    LET l0 == <<"---">>
        l1 == IF Truthy(self.description)
              THEN Append(l0, "description: \"" \o Str(self.description.value) \o "\"")
              ELSE l0
        l2 == IF self.globs # <<>>
              THEN AppendGlobs(Append(l1, "globs:"), self.globs)
              ELSE l1
        l3 == Append(l2, "alwaysApply: " \o Str(lower(str_bool(self.always_apply))))
        l4 == Append(l3, "---")
    IN  join("\n", l4)

\* CursorPrompt.generate_full_content
generate_full_content(self) == generate_frontmatter(self) \o "\n\n" \o self.content

-----------------------------------------------------------------------------
(* Specification SpecCursor: a CursorPrompt and its serialization *)

Globs == {"*.py", "src/**"}

Descriptions == {NoneVal, Some(<<>>), Some(<<"A", " ", "a">>)}

InitCursor ==
    /\ \E description \in Descriptions, globs \in SeqsUpTo(Globs, MaxGlobs),
          always_apply \in BOOLEAN, content \in Contents :
           cursor = Built(CursorPrompt(<<"a">>, content, description, globs,
                                       always_apply), <<>>)
    /\ prompt = NoneVal /\ tagFilter = NoneVal /\ call = NoCall
    /\ claude = NoneVal /\ filesystem = NoneVal
    /\ owuUser = NoneVal /\ owuModel = NoneVal
    /\ langfuse = NoneVal /\ universal = <<>> /\ issued = {}
    /\ sinkConfig = NoneVal /\ env = NoneVal /\ config = NoneVal
    /\ manager = NoneVal /\ script = NoneVal /\ requests = <<>>

GenerateFrontmatter ==
    /\ ~cursor.isNone
    /\ call' = [op |-> "generate_frontmatter", self |-> cursor.value,
                ret |-> generate_frontmatter(cursor.value)]
    /\ UNCHANGED <<prompt, tagFilter, adapterVars, langfuseVars, configVars, runVars>>

GenerateFullContent ==
    /\ ~cursor.isNone
    /\ call' = [op |-> "generate_full_content", self |-> cursor.value,
                ret |-> generate_full_content(cursor.value)]
    /\ UNCHANGED <<prompt, tagFilter, adapterVars, langfuseVars, configVars, runVars>>

NextCursor == GenerateFrontmatter \/ GenerateFullContent

SpecCursor == InitCursor /\ [][NextCursor]_vars

-----------------------------------------------------------------------------
(* Claims on the Cursor header *)

RECURSIVE Lines(_)
\* the text made of the given lines, a newline between consecutive lines
Lines(ls) ==
    IF Len(ls) = 0 THEN ""
    ELSE IF Len(ls) = 1 THEN ls[1]
    ELSE Lines(SubSeq(ls, 1, Len(ls) - 1)) \o "\n" \o ls[Len(ls)]

\* a description is present when it is neither None nor the empty string
HasDescription(c) == ~c.description.isNone /\ Len(c.description.value) > 0

\* C10: generate_frontmatter returns, joined by newlines and in this order:
\* '---'; 'description: "<description>"' only if a description is present
\* (a non-empty one); 'globs:' and one '  - "<glob>"' line per glob in list
\* order only if globs is non-empty; 'alwaysApply: true|false'; '---'.
\* Without description and globs the header is the three remaining lines.
C10_CursorHeader ==
    call.op = "generate_frontmatter" =>
        LET c == cursor.value
            descLines == IF HasDescription(c)
                         THEN <<"description: \"" \o Str(c.description.value) \o "\"">>
                         ELSE <<>>
            globLines == IF Len(c.globs) > 0
                         THEN <<"globs:">> \o
                              [i \in 1..Len(c.globs) |-> "  - \"" \o c.globs[i] \o "\""]
                         ELSE <<>>
            flagLine == IF c.always_apply THEN "alwaysApply: true"
                        ELSE "alwaysApply: false"
        IN  /\ call.ret = Lines(<<"---">> \o descLines \o globLines
                                \o <<flagLine, "---">>)
            /\ (~HasDescription(c) /\ c.globs = <<>>) =>
                   call.ret = "---\n" \o flagLine \o "\n---"

\* C10 witness: no description, no globs, always_apply false
C10_Witness ==
    /\ call.op = "generate_frontmatter"
    /\ cursor.value.description.isNone
    /\ cursor.value.globs = <<>>
    /\ ~cursor.value.always_apply
    /\ call.ret = "---\nalwaysApply: false\n---"

-----------------------------------------------------------------------------
(* Specification SpecAdapters: the adapters applied to prompts with tags,  *)
(* provenance and extra metadata, and the header of the Cursor record      *)

AdapterNames == {<<>>, <<"A", " ">>}

AdapterTags == {"a", "prompt-pidgeon-managed"}

Metadatas ==
    {EmptyDict,
     <<Item("langfuse_type", PyStr("text"))>>,
     <<Item("id", PyStr("shadow")), Item("extra", PyInt(7))>>}

Provenances ==
    {[source_platform |-> NoneVal, source_id |-> NoneVal],
     [source_platform |-> Some("langfuse"), source_id |-> Some("lf-123")]}

InitAdapters ==
    /\ \E n \in AdapterNames, ts \in SeqsUpTo(AdapterTags, MaxPromptTags),
          md \in Metadatas, pv \in Provenances :
           prompt = [Prompt("u0", n, "text", ts) EXCEPT
                        !.created_at = 1, !.updated_at = 2,
                        !.source_platform = pv.source_platform,
                        !.source_id = pv.source_id,
                        !.metadata = md]
    /\ tagFilter = NoneVal
    /\ call = NoCall
    /\ claude = NoneVal /\ cursor = NoneVal /\ filesystem = NoneVal
    /\ owuUser = NoneVal /\ owuModel = NoneVal
    /\ langfuse = NoneVal /\ universal = <<>> /\ issued = {"u0"}
    /\ sinkConfig = NoneVal /\ env = NoneVal /\ config = NoneVal
    /\ manager = NoneVal /\ script = NoneVal /\ requests = <<>>

NextAdapters ==
    \/ ClaudeFromUniversal
    \/ CursorFromUniversal
    \/ FilesystemFromUniversal
    \/ OwuUserFromUniversal
    \/ OwuModelFromUniversal
    \/ GenerateFrontmatter

SpecAdapters == InitAdapters /\ [][NextAdapters]_vars

-----------------------------------------------------------------------------
(* Claims on the adapter records *)

FlagLine(b) == IF b THEN "alwaysApply: true" ELSE "alwaysApply: false"

\* C11 as stated: the header generated for a CursorPrompt built from a
\* prompt is exactly the four lines '---', 'description: "<p.name>"',
\* 'alwaysApply: <flag>', '---'.
C11_FourLineHeader ==
    call.op = "generate_frontmatter" =>
        call.ret = Lines(<<"---",
                           "description: \"" \o Str(prompt.name) \o "\"",
                           FlagLine(call.self.always_apply),
                           "---">>)

\* C11 amended: the CursorPrompt built from p has description p.name
\* unmodified, no globs and always_apply as passed; its header is the four
\* lines '---', 'description: "<p.name>"', 'alwaysApply: <flag>', '---'
\* when p.name is not empty, and the three lines without the description
\* line when p.name is the empty string.
C11_CursorFromPrompt ==
    /\ ~cursor.isNone =>
          /\ cursor.value.description = [isNone |-> FALSE, value |-> prompt.name]
          /\ cursor.value.globs = <<>>
          /\ cursor.value.always_apply = cursor.args.always_apply
    /\ call.op = "generate_frontmatter" =>
          /\ call.self.description = [isNone |-> FALSE, value |-> prompt.name]
          /\ Len(prompt.name) > 0 =>
                call.ret = Lines(<<"---",
                                   "description: \"" \o Str(prompt.name) \o "\"",
                                   FlagLine(call.self.always_apply),
                                   "---">>)
          /\ Len(prompt.name) = 0 =>
                call.ret = Lines(<<"---", FlagLine(call.self.always_apply), "---">>)

\* C11 witness: the header of the record built from the prompt 'A ' with
\* always_apply=true
C11_Witness ==
    /\ call.op = "generate_frontmatter"
    /\ prompt.name = <<"A", " ">>
    /\ call.self.always_apply
    /\ call.ret = "---\ndescription: \"A \"\nalwaysApply: true\n---"

FixedKeys == {"id", "name", "tags", "created_at", "updated_at", "version",
              "source_platform", "source_id"}

\* the value the canonical prompt holds for a fixed key, as the metadata
\* map stores it (timestamps in ISO-8601 form)
CanonicalValue(p, k) ==
    CASE k = "id" -> [type |-> "str", v |-> p.id]
      [] k = "name" -> [type |-> "str", v |-> p.name]
      [] k = "tags" -> [type |-> "list", v |-> p.tags]
      [] k = "created_at" -> [type |-> "str", v |-> isoformat(p.created_at)]
      [] k = "updated_at" -> [type |-> "str", v |-> isoformat(p.updated_at)]
      [] k = "version" -> [type |-> "str", v |-> p.version]
      [] k = "source_platform" ->
            IF p.source_platform.isNone THEN [type |-> "NoneType"]
            ELSE [type |-> "str", v |-> p.source_platform.value]
      [] k = "source_id" ->
            IF p.source_id.isNone THEN [type |-> "NoneType"]
            ELSE [type |-> "str", v |-> p.source_id.value]

\* C12: the metadata map of the FilesystemPrompt has exactly the eight
\* fixed keys and the keys of p.metadata; a key of p.metadata carries
\* p.metadata's value (an extra 'id' replaces the canonical id), every
\* other key the canonical field's value.
C12_MetadataMerge ==
    ~filesystem.isNone =>
        LET m == filesystem.value.metadata
            x == prompt.metadata
        IN  /\ {m[i].k : i \in DOMAIN m} = FixedKeys \cup {x[j].k : j \in DOMAIN x}
            /\ \A i, j \in DOMAIN m : i # j => m[i].k # m[j].k
            /\ \A i \in DOMAIN m :
                  IF \E j \in DOMAIN x : x[j].k = m[i].k
                  THEN \A j \in DOMAIN x : x[j].k = m[i].k => m[i].v = x[j].v
                  ELSE m[i].v = CanonicalValue(prompt, m[i].k)

\* C12 witness: extra metadata with a key 'id' shadows the canonical id
C12_Witness ==
    /\ ~filesystem.isNone
    /\ \E j \in DOMAIN prompt.metadata :
          prompt.metadata[j] = [k |-> "id", v |-> [type |-> "str", v |-> "shadow"]]
    /\ prompt.id = "u0"
    /\ DictGet(filesystem.value.metadata, "id") = [type |-> "str", v |-> "shadow"]
    /\ Len(filesystem.value.metadata) = 9

\* C16: the tags of the OpenWebUIModel are 'prompt-pidgeon-managed' followed
\* by p.tags in order, nothing removed: 1 + len(p.tags) elements.
C16_ManagedTagFirst ==
    ~owuModel.isNone =>
        LET t == owuModel.value.tags IN
        /\ Len(t) = 1 + Len(prompt.tags)
        /\ t[1] = "prompt-pidgeon-managed"
        /\ \A i \in DOMAIN prompt.tags : t[i + 1] = prompt.tags[i]

\* C16 witness: a prompt that already carries the managed tag, twice
C16_Witness ==
    /\ ~owuModel.isNone
    /\ prompt.tags = <<"prompt-pidgeon-managed", "prompt-pidgeon-managed">>
    /\ owuModel.value.tags = <<"prompt-pidgeon-managed", "prompt-pidgeon-managed",
                               "prompt-pidgeon-managed">>

-----------------------------------------------------------------------------
(* FilesystemPrompt serialization (models/platforms/filesystem.py) *)

PyBool(b) == [type |-> "bool", v |-> b]

RECURSIVE py_repr_items(_)
\* the elements of a list of str inside repr(list): 'a', 'b'
py_repr_items(l) ==
    IF l = <<>> THEN ""
    ELSE IF Len(l) = 1 THEN "'" \o l[1] \o "'"
    ELSE "'" \o l[1] \o "', " \o py_repr_items(Tail(l))

\* str(value) as an f-string renders a value of a dict[str, Any]
py_str(x) ==
    CASE x.type = "str" -> x.v
      [] x.type = "int" -> str_int(x.v)
      [] x.type = "bool" -> Str(str_bool(x.v))
      [] x.type = "NoneType" -> "None"
      [] x.type = "list" -> "[" \o py_repr_items(x.v) \o "]"

RECURSIVE AppendListItems(_, _)
\* for item in value: lines.append(f'  - "{item}"')
AppendListItems(lines, value) ==
    IF value = <<>> THEN lines
    ELSE AppendListItems(Append(lines, "  - \"" \o Head(value) \o "\""), Tail(value))

RECURSIVE AppendSubItems(_, _)
\* for subkey, subvalue in value.items(): quoted if a str, unquoted otherwise
AppendSubItems(lines, value) ==
    IF value = <<>> THEN lines
    ELSE LET subkey == Head(value).k
             subvalue == Head(value).v
         IN  AppendSubItems(
                 IF subvalue.type = "str"
                 THEN Append(lines, "  " \o subkey \o ": \"" \o subvalue.v \o "\"")
                 ELSE Append(lines, "  " \o subkey \o ": " \o py_str(subvalue)),
                 Tail(value))

RECURSIVE AppendMetadata(_, _)
\* for key, value in self.metadata.items(): the four isinstance branches
AppendMetadata(lines, metadata) ==
    IF metadata = <<>> THEN lines
    ELSE LET key == Head(metadata).k
             value == Head(metadata).v
         IN  AppendMetadata(
                 IF value.type = "str"
                 THEN Append(lines, key \o ": \"" \o value.v \o "\"")
                 ELSE IF value.type = "list"
                 THEN AppendListItems(Append(lines, key \o ":"), value.v)
                 ELSE IF value.type = "dict"
                 THEN AppendSubItems(Append(lines, key \o ":"), value.v)
                 ELSE Append(lines, key \o ": " \o py_str(value)),
                 Tail(metadata))

FilesystemPrompt(filename, content, metadata) ==
    [filename |-> filename, content |-> content, metadata |-> metadata,
     file_extension |-> "md"]

\* faulty variant: the closing marker is left out
FilesystemPrompt_frontmatter_unclosed(self) ==
    IF self.metadata = <<>> THEN ""
    ELSE join("\n", AppendMetadata(<<"---">>, self.metadata))

\* FilesystemPrompt.generate_frontmatter
FilesystemPrompt_generate_frontmatter(self) ==
    IF self.metadata = <<>> THEN ""
    ELSE join("\n", Append(AppendMetadata(<<"---">>, self.metadata), "---"))

\* faulty variant: the frontmatter and the blank line are always prepended
FilesystemPrompt_full_content_always(self) ==
    FilesystemPrompt_generate_frontmatter(self) \o "\n\n" \o self.content

\* FilesystemPrompt.generate_full_content
FilesystemPrompt_generate_full_content(self) ==
    LET frontmatter == FilesystemPrompt_generate_frontmatter(self)
    IN  IF frontmatter # "" THEN frontmatter \o "\n\n" \o self.content
        ELSE self.content

-----------------------------------------------------------------------------
(* Specification SpecFilesystem: a FilesystemPrompt and its serialization *)

\* the kinds of metadata entry: one per branch of generate_frontmatter
MetaKinds == 1..7

MetaItem(i) ==
    CASE i = 1 -> Item("title", PyStr("t"))
      [] i = 2 -> Item("tags", PyList(<<"x", "y">>))
      [] i = 3 -> Item("empty", PyList(<<>>))
      [] i = 4 -> Item("config", PyDict(<<Item("model", PyStr("gpt-4")),
                                          Item("n", PyInt(12)),
                                          Item("stop", PyList(<<"a">>))>>))
      [] i = 5 -> Item("source_id", PyNone)
      [] i = 6 -> Item("version", PyInt(3))
      [] i = 7 -> Item("active", PyBool(TRUE))

\* dicts of up to MaxMetadata items (the keys of a dict are distinct)
MetadataKinds ==
    {ks \in SeqsUpTo(MetaKinds, MaxMetadata) :
        \A i, j \in DOMAIN ks : i # j => ks[i] # ks[j]}

MetadataDict(ks) == [i \in DOMAIN ks |-> MetaItem(ks[i])]

InitFilesystem ==
    /\ \E ks \in MetadataKinds, content \in Contents :
           filesystem = Built(FilesystemPrompt(<<"a">>, content, MetadataDict(ks)), <<>>)
    /\ prompt = NoneVal /\ tagFilter = NoneVal /\ call = NoCall
    /\ claude = NoneVal /\ cursor = NoneVal
    /\ owuUser = NoneVal /\ owuModel = NoneVal
    /\ langfuse = NoneVal /\ universal = <<>> /\ issued = {}
    /\ sinkConfig = NoneVal /\ env = NoneVal /\ config = NoneVal
    /\ manager = NoneVal /\ script = NoneVal /\ requests = <<>>

FsGenerateFrontmatter ==
    /\ ~filesystem.isNone
    /\ call' = [op |-> "FilesystemPrompt.generate_frontmatter",
                self |-> filesystem.value,
                ret |-> FilesystemPrompt_generate_frontmatter(filesystem.value)]
    /\ UNCHANGED <<prompt, tagFilter, adapterVars, langfuseVars, configVars, runVars>>

FsGenerateFullContent ==
    /\ ~filesystem.isNone
    /\ call' = [op |-> "FilesystemPrompt.generate_full_content",
                self |-> filesystem.value,
                ret |-> FilesystemPrompt_generate_full_content(filesystem.value)]
    /\ UNCHANGED <<prompt, tagFilter, adapterVars, langfuseVars, configVars, runVars>>

NextFilesystem == FsGenerateFrontmatter \/ FsGenerateFullContent

SpecFilesystem == InitFilesystem /\ [][NextFilesystem]_vars

-----------------------------------------------------------------------------
(* Claims on the filesystem frontmatter *)

\* the lines one metadata entry contributes
EntryLines(e) ==
    CASE e.v.type = "str" -> <<e.k \o ": \"" \o e.v.v \o "\"">>
      [] e.v.type = "list" ->
            <<e.k \o ":">> \o [i \in 1..Len(e.v.v) |-> "  - \"" \o e.v.v[i] \o "\""]
      [] e.v.type = "dict" ->
            <<e.k \o ":">> \o
            [i \in 1..Len(e.v.v) |->
                IF e.v.v[i].v.type = "str"
                THEN "  " \o e.v.v[i].k \o ": \"" \o e.v.v[i].v.v \o "\""
                ELSE "  " \o e.v.v[i].k \o ": " \o py_str(e.v.v[i].v)]
      [] OTHER -> <<e.k \o ": " \o py_str(e.v)>>

\* 1 for a scalar entry, 1 + number of elements for a list or a map
EntryCount(e) == IF e.v.type \in {"list", "dict"} THEN 1 + Len(e.v.v) ELSE 1

RECURSIVE AllEntryLines(_)
AllEntryLines(md) == IF md = <<>> THEN <<>> ELSE EntryLines(Head(md)) \o AllEntryLines(Tail(md))

RECURSIVE SumEntryCount(_)
SumEntryCount(md) == IF md = <<>> THEN 0 ELSE EntryCount(Head(md)) + SumEntryCount(Tail(md))

\* C13: generate_frontmatter returns the empty string exactly when metadata
\* is empty; generate_full_content then returns the body unchanged, and
\* otherwise the frontmatter, one blank line, then the body.
C13_EmptyFrontmatter ==
    /\ call.op = "FilesystemPrompt.generate_frontmatter" =>
          (call.ret = "" <=> Len(call.self.metadata) = 0)
    /\ call.op = "FilesystemPrompt.generate_full_content" =>
          IF Len(call.self.metadata) = 0
          THEN call.ret = call.self.content
          ELSE call.ret =
                 Lines(<<"---">> \o AllEntryLines(call.self.metadata)
                       \o <<"---", "", call.self.content>>)

\* C13 witness: full content of a prompt without metadata is its body
C13_Witness ==
    /\ call.op = "FilesystemPrompt.generate_full_content"
    /\ call.self.metadata = <<>>
    /\ call.self.content = "  {{var}} \n"
    /\ call.ret = "  {{var}} \n"

\* C14: for non-empty metadata the frontmatter is '---', the lines of each
\* entry in map order (quoted string; 'key:' and one quoted item line per
\* list element; 'key:' and one line per sub-entry, quoted for strings and
\* unquoted otherwise; one unquoted line for any other value), then '---';
\* that is 2 + the sum over the entries of 1 or 1 + number of elements.
C14_FrontmatterLines ==
    (call.op = "FilesystemPrompt.generate_frontmatter"
     /\ Len(call.self.metadata) > 0) =>
        LET ls == <<"---">> \o AllEntryLines(call.self.metadata) \o <<"---">>
        IN  /\ call.ret = Lines(ls)
            /\ Len(ls) = 2 + SumEntryCount(call.self.metadata)

\* C14 witness: a nested map followed by a None value
C14_Witness ==
    /\ call.op = "FilesystemPrompt.generate_frontmatter"
    /\ Len(call.self.metadata) = 2
    /\ call.self.metadata[1].k = "config"
    /\ call.self.metadata[2].k = "source_id"
    /\ call.ret = "---\nconfig:\n  model: \"gpt-4\"\n  n: 12\n  stop: ['a']\nsource_id: None\n---"

-----------------------------------------------------------------------------
(* pathlib.Path (POSIX flavour): a root and the list of components *)

RECURSIVE split(_, _)
\* s.split(sep) for a one-character separator
split(s, sep) ==
    IF \A i \in DOMAIN s : s[i] # sep THEN <<s>>
    ELSE LET i == CHOOSE i \in DOMAIN s :
                      s[i] = sep /\ \A j \in 1..(i - 1) : s[j] # sep
         IN  <<SubSeq(s, 1, i - 1)>> \o split(SubSeq(s, i + 1, Len(s)), sep)

\* the root of a path string: '//' for exactly two leading slashes, '/' for
\* any other number of them, '' for none
splitroot(s) ==
    LET n == Cardinality({i \in DOMAIN s : \A j \in 1..i : s[j] = "/"})
    IN  IF n = 0 THEN <<>> ELSE IF n = 2 THEN <<"/", "/">> ELSE <<"/">>

\* empty and '.' components are dropped when a path is parsed
IsComponent(c) == c # <<>> /\ c # <<".">>

\* Path(s)
Path(s) == [root |-> splitroot(s), parts |-> SelectSeq(split(s, "/"), IsComponent)]

\* self / key: a rooted right operand replaces the left one
Path_truediv(self, key) ==
    LET other == Path(key)
    IN  IF other.root # <<>> THEN other
        ELSE [root |-> self.root, parts |-> self.parts \o other.parts]

RECURSIVE join_parts(_)
join_parts(parts) ==
    IF parts = <<>> THEN <<>>
    ELSE IF Len(parts) = 1 THEN parts[1]
    ELSE parts[1] \o <<"/">> \o join_parts(Tail(parts))

\* str(path)
Path_str(self) ==
    IF self.root = <<>> /\ self.parts = <<>> THEN <<".">>
    ELSE self.root \o join_parts(self.parts)

DotClaude == <<".", "c", "l", "a", "u", "d", "e">>
Commands == <<"c", "o", "m", "m", "a", "n", "d", "s">>
Untagged == <<"u", "n", "t", "a", "g", "g", "e", "d">>

\* SyncScope.is_global
is_global(self) == self.scope_type = "global"

\* ClaudeCodePrompt.get_file_path; e carries Path.home() and Path.cwd()
ClaudeCodePrompt_get_file_path(self, e) ==
    LET base_path ==
            IF is_global(self.scope)
            THEN Path_truediv(Path_truediv(e.home, DotClaude), Commands)
            ELSE LET project_path ==
                         IF ~self.scope.path.isNone /\ self.scope.path.value # <<>>
                         THEN Path(self.scope.path.value)
                         ELSE e.cwd
                 IN  Path_truediv(Path_truediv(project_path, DotClaude), Commands)
    IN  Path_truediv(base_path, self.filename \o <<".", "m", "d">>)

\* FilesystemPrompt.get_file_path
FilesystemPrompt_get_file_path(self, base_path) ==
    Path_truediv(base_path, self.filename \o <<".">> \o self.file_extension)

FilesystemSinkConfig(path, create_subdirectories, subdirectory_tag) ==
    [path |-> path, create_subdirectories |-> create_subdirectories,
     subdirectory_tag |-> subdirectory_tag]

\* FilesystemSinkConfig.get_prompt_path
get_prompt_path(self, p, filesystem_prompt) ==
    LET subdir ==
            IF /\ ~self.subdirectory_tag.isNone
               /\ self.subdirectory_tag.value # <<>>
               /\ has_tag(p, self.subdirectory_tag.value)
            THEN self.subdirectory_tag.value
            ELSE IF p.tags # <<>> THEN p.tags[1]
            ELSE Untagged
        base_path ==
            IF self.create_subdirectories
            THEN Path_truediv(self.path, subdir)
            ELSE self.path
    IN  FilesystemPrompt_get_file_path(filesystem_prompt, base_path)

-----------------------------------------------------------------------------
(* Specification SpecPaths: where a prompt file is written *)

PathNames == {<<"a">>, <<"A", " ">>, <<"/", "a">>}
PathTags == {<<"a">>, <<"b">>, <<"/", "b">>}
SinkPaths == {Path(<<"/", "p">>), Path(<<"p">>)}
SubdirectoryTags == {NoneVal, Some(<<>>), Some(<<"b">>)}

InitPaths ==
    /\ \E n \in PathNames, tags \in SeqsUpTo(PathTags, MaxPromptTags) :
           prompt = Prompt("u0", n, "text", tags)
    /\ \E path \in SinkPaths, create_subdirectories \in BOOLEAN,
          subdirectory_tag \in SubdirectoryTags :
           sinkConfig = Some(FilesystemSinkConfig(path, create_subdirectories,
                                                  subdirectory_tag))
    /\ env = [home |-> Path(<<"/", "h">>), cwd |-> Path(<<"/", "w">>)]
    /\ tagFilter = NoneVal /\ call = NoCall
    /\ claude = NoneVal /\ cursor = NoneVal /\ filesystem = NoneVal
    /\ owuUser = NoneVal /\ owuModel = NoneVal
    /\ langfuse = NoneVal /\ universal = <<>> /\ issued = {"u0"}
    /\ config = NoneVal
    /\ manager = NoneVal /\ script = NoneVal /\ requests = <<>>

GetPromptPath ==
    /\ ~filesystem.isNone /\ ~sinkConfig.isNone
    /\ call' = [op |-> "get_prompt_path", self |-> sinkConfig.value,
                prompt |-> prompt, filesystem_prompt |-> filesystem.value,
                ret |-> get_prompt_path(sinkConfig.value, prompt, filesystem.value)]
    /\ UNCHANGED <<prompt, tagFilter, adapterVars, langfuseVars, configVars, runVars>>

ClaudeGetFilePath ==
    /\ ~claude.isNone
    /\ call' = [op |-> "ClaudeCodePrompt.get_file_path", self |-> claude.value,
                env |-> env,
                ret |-> ClaudeCodePrompt_get_file_path(claude.value, env)]
    /\ UNCHANGED <<prompt, tagFilter, adapterVars, langfuseVars, configVars, runVars>>

NextPaths ==
    \/ FilesystemFromUniversal
    \/ ClaudeFromUniversal
    \/ GetPromptPath
    \/ ClaudeGetFilePath

SpecPaths == InitPaths /\ [][NextPaths]_vars

-----------------------------------------------------------------------------
(* Claims on the target paths *)

\* the subdirectory the configuration selects for a prompt
Subdir(cfg, p) ==
    IF ~cfg.subdirectory_tag.isNone /\ cfg.subdirectory_tag.value # <<>>
       /\ \E i \in DOMAIN p.tags : p.tags[i] = cfg.subdirectory_tag.value
    THEN cfg.subdirectory_tag.value
    ELSE IF Len(p.tags) > 0 THEN p.tags[1] ELSE Untagged

\* the path written <path>/<filename>.<ext> or <path>/<subdir>/<filename>.<ext>
PromptPathText(cfg, p, fp) ==
    Path_str(cfg.path) \o <<"/">>
    \o (IF cfg.create_subdirectories THEN Subdir(cfg, p) \o <<"/">> ELSE <<>>)
    \o fp.filename \o <<".">> \o fp.file_extension

IsRooted(s) == Len(s) > 0 /\ s[1] = "/"

\* C15: get_prompt_path returns <path>/<filename>.<ext> without
\* subdirectories and <path>/<subdir>/<filename>.<ext> with them, subdir
\* being the configured tag if the prompt carries it, else the first tag,
\* else 'untagged'.
C15_PromptPath ==
    call.op = "get_prompt_path" =>
        call.ret = Path(PromptPathText(call.self, call.prompt, call.filesystem_prompt))

\* the same statement for file names and subdirectories that do not start
\* with a slash
C15_PromptPathUnrooted ==
    (/\ call.op = "get_prompt_path"
     /\ ~IsRooted(call.filesystem_prompt.filename)
     /\ call.self.create_subdirectories => ~IsRooted(Subdir(call.self, call.prompt)))
    => call.ret = Path(PromptPathText(call.self, call.prompt, call.filesystem_prompt))

\* the directory a command file belongs to under the claim
CommandPathText(self, e) ==
    (IF self.scope.scope_type = "global" THEN Path_str(e.home)
     ELSE IF ~self.scope.path.isNone /\ self.scope.path.value # <<>>
     THEN self.scope.path.value
     ELSE Path_str(e.cwd))
    \o <<"/">> \o DotClaude \o <<"/">> \o Commands \o <<"/">>
    \o self.filename \o <<".", "m", "d">>

\* C17: get_file_path returns <home>/.claude/commands/<filename>.md for
\* global scope, and for project scope <scope.path>/.claude/commands/
\* <filename>.md when a path is given and <cwd>/.claude/commands/
\* <filename>.md when not; the home directory is used only for global scope.
C17_CommandPath ==
    call.op = "ClaudeCodePrompt.get_file_path" =>
        call.ret = Path(CommandPathText(call.self, call.env))

\* the same statement for file names that do not start with a slash
C17_CommandPathUnrooted ==
    (call.op = "ClaudeCodePrompt.get_file_path" /\ ~IsRooted(call.self.filename))
    => call.ret = Path(CommandPathText(call.self, call.env))

-----------------------------------------------------------------------------
(* PidgeonConfig and ConfigManager.validate_config (models/config.py) *)

\* an entry of sources / sinks without a name attribute
NoName == [isNone |-> TRUE, absent |-> TRUE]

\* a source or sink entry: its name (absent, None or a str) and the rest
Entry(name, rest) == [name |-> name, rest |-> rest]

\* hasattr(entry, "name")
hasattr_name(entry) == entry.name # NoName

\* getattr(entry, "name", None)
getattr_name(entry) == IF entry.name = NoName THEN NoneVal ELSE entry.name

SyncJobConfig(name, source, sink, enabled) ==
    [name |-> name, source |-> source, sink |-> sink, enabled |-> enabled]

PidgeonConfig(sources, sinks, sync) ==
    [version |-> "1", sources |-> sources, sinks |-> sinks, sync |-> sync,
     log_level |-> "INFO", max_concurrent_jobs |-> 5, timeout_seconds |-> 300]

\* faulty variant: the last entry of that name is returned
get_source_by_name_last(self, name) ==
    LET found == {i \in DOMAIN self.sources :
                     hasattr_name(self.sources[i]) /\ self.sources[i].name = Some(name)}
    IN  IF found = {} THEN NoneVal
        ELSE Some(self.sources[CHOOSE i \in found : \A j \in found : j <= i])

\* PidgeonConfig.get_source_by_name: the scan returns at the first match
get_source_by_name(self, name) ==
    LET found == {i \in DOMAIN self.sources :
                     hasattr_name(self.sources[i]) /\ self.sources[i].name = Some(name)}
    IN  IF found = {} THEN NoneVal
        ELSE Some(self.sources[CHOOSE i \in found : \A j \in found : i <= j])

\* PidgeonConfig.get_sink_by_name
get_sink_by_name(self, name) ==
    LET found == {i \in DOMAIN self.sinks :
                     hasattr_name(self.sinks[i]) /\ self.sinks[i].name = Some(name)}
    IN  IF found = {} THEN NoneVal
        ELSE Some(self.sinks[CHOOSE i \in found : \A j \in found : i <= j])

job_enabled(job) == job.enabled

\* faulty variant: every job is returned
get_enabled_sync_jobs_all(self) == self.sync

\* PidgeonConfig.get_enabled_sync_jobs
get_enabled_sync_jobs(self) == SelectSeq(self.sync, job_enabled)

\* {getattr(e, "name", None) for e in entries} with None discarded
names_of(entries) ==
    {getattr_name(entries[i]).value :
        i \in {j \in DOMAIN entries : ~getattr_name(entries[j]).isNone}}

RECURSIVE check_jobs_elif(_, _, _, _)
\* faulty variant: the sink is looked at only when the source resolves
check_jobs_elif(errors, sync, source_names, sink_names) ==
    IF sync = <<>> THEN errors
    ELSE LET job == Head(sync)
         IN  check_jobs_elif(
                 IF job.source \notin source_names
                 THEN Append(errors, "Sync job '" \o job.name
                                 \o "' references unknown source '" \o job.source \o "'")
                 ELSE IF job.sink \notin sink_names
                 THEN Append(errors, "Sync job '" \o job.name
                                 \o "' references unknown sink '" \o job.sink \o "'")
                 ELSE errors,
                 Tail(sync), source_names, sink_names)

RECURSIVE check_jobs(_, _, _, _)
\* for job in config.sync: the two independent reference tests
check_jobs(errors, sync, source_names, sink_names) ==
    IF sync = <<>> THEN errors
    ELSE LET job == Head(sync)
             e1 == IF job.source \notin source_names
                   THEN Append(errors, "Sync job '" \o job.name
                                   \o "' references unknown source '" \o job.source \o "'")
                   ELSE errors
             e2 == IF job.sink \notin sink_names
                   THEN Append(e1, "Sync job '" \o job.name
                                   \o "' references unknown sink '" \o job.sink \o "'")
                   ELSE e1
         IN  check_jobs(e2, Tail(sync), source_names, sink_names)

\* faulty variant of validate_config built on check_jobs_elif
validate_config_elif(cfg) ==
    LET source_names == names_of(cfg.sources)
        sink_names == names_of(cfg.sinks)
        e1 == check_jobs_elif(<<>>, cfg.sync, source_names, sink_names)
        e2 == IF Cardinality(source_names) # Len(cfg.sources)
              THEN Append(e1, "Duplicate source names found") ELSE e1
    IN  IF Cardinality(sink_names) # Len(cfg.sinks)
        THEN Append(e2, "Duplicate sink names found") ELSE e2

\* faulty variant: the two duplicate-name tests are left out
validate_config_references_only(cfg) ==
    check_jobs(<<>>, cfg.sync, names_of(cfg.sources), names_of(cfg.sinks))

\* ConfigManager.validate_config
validate_config(cfg) ==
    LET source_names == names_of(cfg.sources)
        sink_names == names_of(cfg.sinks)
        e1 == check_jobs(<<>>, cfg.sync, source_names, sink_names)
        e2 == IF Cardinality(source_names) # Len(cfg.sources)
              THEN Append(e1, "Duplicate source names found") ELSE e1
    IN  IF Cardinality(sink_names) # Len(cfg.sinks)
        THEN Append(e2, "Duplicate sink names found") ELSE e2

-----------------------------------------------------------------------------
(* Specification SpecLookup: lookups by name over sources and sinks *)

SourceEntries ==
    {Entry(NoName, "x"), Entry(NoneVal, "x"),
     Entry(Some("s1"), "x"), Entry(Some("s1"), "y"), Entry(Some("s2"), "x")}
SinkEntries == {Entry(NoName, "x"), Entry(Some("k1"), "x"), Entry(Some("k1"), "y")}
LookupNames == {"s1", "s2", "k1"}

InitLookup ==
    /\ \E sources \in SeqsUpTo(SourceEntries, MaxSources),
          sinks \in SeqsUpTo(SinkEntries, MaxSinks) :
           config = Some(PidgeonConfig(sources, sinks, <<>>))
    /\ prompt = NoneVal /\ tagFilter = NoneVal /\ call = NoCall
    /\ claude = NoneVal /\ cursor = NoneVal /\ filesystem = NoneVal
    /\ owuUser = NoneVal /\ owuModel = NoneVal
    /\ langfuse = NoneVal /\ universal = <<>> /\ issued = {}
    /\ sinkConfig = NoneVal /\ env = NoneVal
    /\ manager = NoneVal /\ script = NoneVal /\ requests = <<>>

GetSourceByName ==
    /\ ~config.isNone
    /\ \E name \in LookupNames :
           call' = [op |-> "get_source_by_name", self |-> config.value,
                    name |-> name,
                    ret |-> get_source_by_name(config.value, name)]
    /\ UNCHANGED <<prompt, tagFilter, adapterVars, langfuseVars, configVars, runVars>>

GetSinkByName ==
    /\ ~config.isNone
    /\ \E name \in LookupNames :
           call' = [op |-> "get_sink_by_name", self |-> config.value,
                    name |-> name,
                    ret |-> get_sink_by_name(config.value, name)]
    /\ UNCHANGED <<prompt, tagFilter, adapterVars, langfuseVars, configVars, runVars>>

NextLookup == GetSourceByName \/ GetSinkByName

SpecLookup == InitLookup /\ [][NextLookup]_vars

\* entry number i of the list carries the name n
Named(entries, i, n) ==
    /\ entries[i].name # NoName
    /\ ~entries[i].name.isNone
    /\ entries[i].name.value = n

\* ret is the earliest entry named n, or None when there is none
FirstNamed(entries, n, ret) ==
    IF \E i \in DOMAIN entries : Named(entries, i, n)
    THEN \E i \in DOMAIN entries :
            /\ Named(entries, i, n)
            /\ \A j \in 1..(i - 1) : ~Named(entries, j, n)
            /\ ret = Some(entries[i])
    ELSE ret = NoneVal

\* C18: get_source_by_name(n) returns the first entry of sources, in list
\* order, whose name equals n, and None when no entry has that name;
\* entries without a name are skipped and the earliest of several entries
\* sharing the name is returned. get_sink_by_name does the same over sinks.
C18_FirstMatch ==
    /\ call.op = "get_source_by_name" =>
          FirstNamed(call.self.sources, call.name, call.ret)
    /\ call.op = "get_sink_by_name" =>
          FirstNamed(call.self.sinks, call.name, call.ret)

\* C18 witness: an unnamed entry is skipped and the earlier of two entries
\* named s1 is returned
C18_Witness ==
    /\ call.op = "get_source_by_name"
    /\ call.name = "s1"
    /\ call.self.sources = <<Entry(Some("s1"), "y"), Entry(Some("s1"), "x")>>
    /\ call.ret = Some(Entry(Some("s1"), "y"))

-----------------------------------------------------------------------------
(* Specification SpecJobs: sync jobs, their selection and their validation *)

SourceLists ==
    {<<>>, <<Entry(Some("s1"), "x")>>,
     <<Entry(NoName, "x"), Entry(Some("s1"), "x")>>,
     <<Entry(Some("s1"), "x"), Entry(Some("s1"), "y")>>}
SinkLists ==
    {<<>>, <<Entry(Some("k1"), "x")>>,
     <<Entry(Some("k1"), "x"), Entry(Some("k2"), "x")>>}
Jobs ==
    {SyncJobConfig(n, source, sink, enabled) :
        n \in {"j1", "j2"}, source \in {"s1", "s3"}, sink \in {"k1", "k3"},
        enabled \in BOOLEAN}

InitJobs ==
    /\ \E sources \in SourceLists, sinks \in SinkLists,
          sync \in SeqsUpTo(Jobs, MaxJobs) :
           config = Some(PidgeonConfig(sources, sinks, sync))
    /\ prompt = NoneVal /\ tagFilter = NoneVal /\ call = NoCall
    /\ claude = NoneVal /\ cursor = NoneVal /\ filesystem = NoneVal
    /\ owuUser = NoneVal /\ owuModel = NoneVal
    /\ langfuse = NoneVal /\ universal = <<>> /\ issued = {}
    /\ sinkConfig = NoneVal /\ env = NoneVal
    /\ manager = NoneVal /\ script = NoneVal /\ requests = <<>>

GetEnabledSyncJobs ==
    /\ ~config.isNone
    /\ call' = [op |-> "get_enabled_sync_jobs", self |-> config.value,
                ret |-> get_enabled_sync_jobs(config.value)]
    /\ UNCHANGED <<prompt, tagFilter, adapterVars, langfuseVars, configVars, runVars>>

ValidateConfig ==
    /\ ~config.isNone
    /\ call' = [op |-> "validate_config", config |-> config.value,
                ret |-> validate_config(config.value)]
    /\ UNCHANGED <<prompt, tagFilter, adapterVars, langfuseVars, configVars, runVars>>

NextJobs == GetEnabledSyncJobs \/ ValidateConfig

SpecJobs == InitJobs /\ [][NextJobs]_vars

\* the positions of the enabled jobs
EnabledAt(sync) == {i \in DOMAIN sync : sync[i].enabled}

\* the k-th smallest member of a set of positions
Kth(S, k) == CHOOSE i \in S : Cardinality({j \in S : j <= i}) = k

\* C19: get_enabled_sync_jobs returns exactly the jobs of the sync list
\* whose enabled flag is true, each once, in the same relative order, and
\* leaves the sync list unchanged.
C19_EnabledJobs ==
    [][call'.op = "get_enabled_sync_jobs" =>
          /\ config' = config
          /\ call'.self = config.value
          /\ Len(call'.ret) = Cardinality(EnabledAt(config.value.sync))
          /\ \A k \in DOMAIN call'.ret :
                call'.ret[k] = config.value.sync[Kth(EnabledAt(config.value.sync), k)]]_vars

\* C19 witness: a disabled job ahead of an enabled one is dropped
C19_Witness ==
    /\ call.op = "get_enabled_sync_jobs"
    /\ Len(call.self.sync) = 2
    /\ ~call.self.sync[1].enabled
    /\ call.self.sync[2].enabled
    /\ call.ret = <<call.self.sync[2]>>
    /\ config.value.sync = call.self.sync

DuplicateDiagnostics == {"Duplicate source names found", "Duplicate sink names found"}

IsReferenceDiagnostic(e) == e \notin DuplicateDiagnostics

SourceResolves(cfg, job) ==
    \E i \in DOMAIN cfg.sources : Named(cfg.sources, i, job.source)

SinkResolves(cfg, job) ==
    \E i \in DOMAIN cfg.sinks : Named(cfg.sinks, i, job.sink)

\* the diagnostics one job calls for: source first, then sink
JobDiagnostics(cfg, job) ==
    (IF SourceResolves(cfg, job) THEN <<>>
     ELSE <<"Sync job '" \o job.name \o "' references unknown source '"
            \o job.source \o "'">>)
    \o (IF SinkResolves(cfg, job) THEN <<>>
        ELSE <<"Sync job '" \o job.name \o "' references unknown sink '"
               \o job.sink \o "'">>)

RECURSIVE AllJobDiagnostics(_, _)
AllJobDiagnostics(cfg, sync) ==
    IF sync = <<>> THEN <<>>
    ELSE JobDiagnostics(cfg, Head(sync)) \o AllJobDiagnostics(cfg, Tail(sync))

\* the unresolved references of a configuration
Unresolved(cfg) ==
    {<<i, "source">> : i \in {j \in DOMAIN cfg.sync : ~SourceResolves(cfg, cfg.sync[j])}}
    \cup {<<i, "sink">> : i \in {j \in DOMAIN cfg.sync : ~SinkResolves(cfg, cfg.sync[j])}}

\* C20: validate_config returns, for every job enabled or not, one
\* diagnostic when its source is not a configured source name and,
\* independently, one when its sink is not a configured sink name (source
\* first); the reference diagnostics number the unresolved references.
C20_ReferenceDiagnostics ==
    call.op = "validate_config" =>
        LET refs == SelectSeq(call.ret, IsReferenceDiagnostic)
        IN  /\ refs = AllJobDiagnostics(call.config, call.config.sync)
            /\ Len(refs) = Cardinality(Unresolved(call.config))

\* C20 witness: a disabled job with both references broken gets the source
\* diagnostic and then the sink diagnostic
C20_Witness ==
    /\ call.op = "validate_config"
    /\ call.config.sources = <<Entry(Some("s1"), "x")>>
    /\ call.config.sinks = <<Entry(Some("k1"), "x")>>
    /\ call.config.sync = <<SyncJobConfig("j1", "s3", "k3", FALSE)>>
    /\ call.ret = <<"Sync job 'j1' references unknown source 's3'",
                    "Sync job 'j1' references unknown sink 'k3'">>

-----------------------------------------------------------------------------
(* Claims on the duplicate-name diagnostics *)

\* the key under which an entry collides: its name, or one shared key for
\* every entry without a name
CollisionKey(entry) == getattr_name(entry)

\* two entries of the list collide
HasCollision(entries) ==
    \E i, j \in DOMAIN entries :
        i # j /\ CollisionKey(entries[i]) = CollisionKey(entries[j])

HasUnnamed(entries) == \E i \in DOMAIN entries : getattr_name(entries[i]).isNone

Reports(errors, e) == \E i \in DOMAIN errors : errors[i] = e

\* C21: validate_config reports 'Duplicate source names found' exactly when
\* two entries of sources have the same name, entries without a name
\* colliding only with one another; the same for sinks.
C21_DuplicateNames ==
    call.op = "validate_config" =>
        /\ Reports(call.ret, "Duplicate source names found")
              <=> HasCollision(call.config.sources)
        /\ Reports(call.ret, "Duplicate sink names found")
              <=> HasCollision(call.config.sinks)

\* what the length comparison reports: a collision or any unnamed entry
C21_DuplicateOrUnnamed ==
    call.op = "validate_config" =>
        /\ Reports(call.ret, "Duplicate source names found")
              <=> (HasCollision(call.config.sources) \/ HasUnnamed(call.config.sources))
        /\ Reports(call.ret, "Duplicate sink names found")
              <=> (HasCollision(call.config.sinks) \/ HasUnnamed(call.config.sinks))

-----------------------------------------------------------------------------
(* EnvironmentSettings (models/config.py): os.getenv and the settings sources *)

EnvNames ==
    {"PROMPT_PIDGEON_LANGFUSE_PUBLIC_KEY", "LANGFUSE_PUBLIC_KEY",
     "PROMPT_PIDGEON_LANGFUSE_SECRET_KEY", "LANGFUSE_SECRET_KEY",
     "PROMPT_PIDGEON_LANGFUSE_URL", "LANGFUSE_URL",
     "PROMPT_PIDGEON_LANGFUSE_HOST", "LANGFUSE_HOST",
     "PROMPT_PIDGEON_OPEN_WEBUI_API_KEY", "OPEN_WEBUI_API_KEY",
     "PROMPT_PIDGEON_OPEN_WEBUI_URL", "OPEN_WEBUI_URL",
     "PROMPT_PIDGEON_CONFIG_FILE", "PROMPT_PIDGEON_LOG_LEVEL", "LOG_LEVEL",
     "PROMPT_PIDGEON_DRY_RUN"}

\* the fields a .env file can supply (its keys match field names)
DotenvFields == {"langfuse_url", "log_level"}

\* os.getenv(name): None for an unset variable
getenv(e, name) == e.environ[name]

\* bool(x) for x of type str | None
truthy(x) == ~x.isNone /\ x.value # ""

\* a or b
or(a, b) == IF truthy(a) THEN a ELSE b

\* str.lower on the values a dry-run variable takes here
lower_text(v) == IF v = "Yes" THEN "yes" ELSE IF v = "OFF" THEN "off" ELSE v

\* what the settings sources give for a field that got no keyword argument:
\* the variable named like the field if it is non-empty, else the .env
\* entry, else the default
settings_source(e, envname, field, default) ==
    IF envname \in EnvNames /\ truthy(e.environ[envname]) THEN e.environ[envname]
    ELSE IF field \in DotenvFields /\ ~e.dotenv[field].isNone THEN e.dotenv[field]
    ELSE default

\* a keyword argument that is not None wins over the settings sources
field_value(kwarg, e, envname, field, default) ==
    IF ~kwarg.isNone THEN kwarg ELSE settings_source(e, envname, field, default)

\* faulty variant: the unprefixed variable is asked first
direct_or_prefixed(e, prefixed, direct) == or(getenv(e, direct), getenv(e, prefixed))

\* os.getenv(prefixed) or os.getenv(direct)
prefixed_or_direct(e, prefixed, direct) == or(getenv(e, prefixed), getenv(e, direct))

\* faulty variant: the HOST variables are asked before the URL variables
langfuse_url_host_first(e) ==
    or(or(or(getenv(e, "PROMPT_PIDGEON_LANGFUSE_HOST"), getenv(e, "LANGFUSE_HOST")),
          getenv(e, "PROMPT_PIDGEON_LANGFUSE_URL")),
       getenv(e, "LANGFUSE_URL"))

\* the four-variable chain of langfuse_url
langfuse_url_env(e) ==
    or(or(or(getenv(e, "PROMPT_PIDGEON_LANGFUSE_URL"), getenv(e, "LANGFUSE_URL")),
          getenv(e, "PROMPT_PIDGEON_LANGFUSE_HOST")),
       getenv(e, "LANGFUSE_HOST"))

\* EnvironmentSettings() without keyword arguments
EnvironmentSettings(e) ==
    LET url == langfuse_url_env(e)
        config_file_env == getenv(e, "PROMPT_PIDGEON_CONFIG_FILE")
        log_level_env == getenv(e, "PROMPT_PIDGEON_LOG_LEVEL")
        dry_run_env == getenv(e, "PROMPT_PIDGEON_DRY_RUN")
    IN  [langfuse_public_key |->
             field_value(prefixed_or_direct(e, "PROMPT_PIDGEON_LANGFUSE_PUBLIC_KEY", "LANGFUSE_PUBLIC_KEY"),
                         e, "LANGFUSE_PUBLIC_KEY", "langfuse_public_key", NoneVal),
         langfuse_secret_key |->
             field_value(prefixed_or_direct(e, "PROMPT_PIDGEON_LANGFUSE_SECRET_KEY", "LANGFUSE_SECRET_KEY"),
                         e, "LANGFUSE_SECRET_KEY", "langfuse_secret_key", NoneVal),
         langfuse_url |-> field_value(url, e, "LANGFUSE_URL", "langfuse_url", NoneVal),
         open_webui_api_key |->
             field_value(prefixed_or_direct(e, "PROMPT_PIDGEON_OPEN_WEBUI_API_KEY", "OPEN_WEBUI_API_KEY"),
                         e, "OPEN_WEBUI_API_KEY", "open_webui_api_key", NoneVal),
         open_webui_url |->
             field_value(prefixed_or_direct(e, "PROMPT_PIDGEON_OPEN_WEBUI_URL", "OPEN_WEBUI_URL"),
                         e, "OPEN_WEBUI_URL", "open_webui_url", NoneVal),
         config_file |->
             field_value(IF truthy(config_file_env) THEN config_file_env ELSE NoneVal,
                         e, "CONFIG_FILE", "config_file",
                         Some("prompt-pidgeon.yml")).value,
         log_level |->
             field_value(IF truthy(log_level_env) THEN log_level_env ELSE NoneVal,
                         e, "LOG_LEVEL", "log_level", Some("INFO")).value,
         dry_run |->
             IF truthy(dry_run_env)
             THEN lower_text(dry_run_env.value) \in {"true", "1", "yes", "on"}
             ELSE FALSE]

-----------------------------------------------------------------------------
(* Specification SpecSettings: EnvironmentSettings() under an environment *)

\* the k-th value a variable may hold: empty, its own value, a value that
\* other variables hold too
EnvValue(n, k) ==
    IF k = 1 THEN ""
    ELSE IF n = "PROMPT_PIDGEON_LOG_LEVEL" THEN (IF k = 2 THEN "DEBUG" ELSE "INFO")
    ELSE IF n = "LOG_LEVEL" THEN (IF k = 2 THEN "WARNING" ELSE "INFO")
    ELSE IF n = "PROMPT_PIDGEON_DRY_RUN" THEN (IF k = 2 THEN "Yes" ELSE "OFF")
    ELSE IF k = 2 THEN "from " \o n ELSE "shared"

\* os.environ with the variables of S set, the others unset
Environ(S, f) == [n \in EnvNames |-> IF n \in S THEN Some(EnvValue(n, f[n])) ELSE NoneVal]

NoDotenv == [f \in DotenvFields |-> NoneVal]
Dotenvs ==
    {NoDotenv,
     [NoDotenv EXCEPT !["langfuse_url"] = Some("from .env")],
     [NoDotenv EXCEPT !["log_level"] = Some("ERROR")]}

InitSettings ==
    /\ \E S \in {T \in SUBSET EnvNames : Cardinality(T) <= MaxEnvVars} :
       \E f \in [S -> 1..3], dotenv \in Dotenvs :
           env = [environ |-> Environ(S, f), dotenv |-> dotenv]
    /\ prompt = NoneVal /\ tagFilter = NoneVal /\ call = NoCall
    /\ claude = NoneVal /\ cursor = NoneVal /\ filesystem = NoneVal
    /\ owuUser = NoneVal /\ owuModel = NoneVal
    /\ langfuse = NoneVal /\ universal = <<>> /\ issued = {}
    /\ sinkConfig = NoneVal /\ config = NoneVal
    /\ manager = NoneVal /\ script = NoneVal /\ requests = <<>>

NewEnvironmentSettings ==
    /\ call' = [op |-> "EnvironmentSettings", env |-> env,
                ret |-> EnvironmentSettings(env)]
    /\ UNCHANGED <<prompt, tagFilter, adapterVars, langfuseVars, configVars, runVars>>

NextSettings == NewEnvironmentSettings

SpecSettings == InitSettings /\ [][NextSettings]_vars

-----------------------------------------------------------------------------
(* Claims on the environment preference system *)

CredentialSettings ==
    {"langfuse_public_key", "langfuse_secret_key", "langfuse_url",
     "open_webui_api_key", "open_webui_url"}

\* the PROMPT_PIDGEON_ variables that feed a setting
PrefixedVars(s) ==
    CASE s = "langfuse_public_key" -> {"PROMPT_PIDGEON_LANGFUSE_PUBLIC_KEY"}
      [] s = "langfuse_secret_key" -> {"PROMPT_PIDGEON_LANGFUSE_SECRET_KEY"}
      [] s = "langfuse_url" -> {"PROMPT_PIDGEON_LANGFUSE_URL", "PROMPT_PIDGEON_LANGFUSE_HOST"}
      [] s = "open_webui_api_key" -> {"PROMPT_PIDGEON_OPEN_WEBUI_API_KEY"}
      [] s = "open_webui_url" -> {"PROMPT_PIDGEON_OPEN_WEBUI_URL"}

\* the unprefixed variables that feed a setting
DirectVars(s) ==
    CASE s = "langfuse_public_key" -> {"LANGFUSE_PUBLIC_KEY"}
      [] s = "langfuse_secret_key" -> {"LANGFUSE_SECRET_KEY"}
      [] s = "langfuse_url" -> {"LANGFUSE_URL", "LANGFUSE_HOST"}
      [] s = "open_webui_api_key" -> {"OPEN_WEBUI_API_KEY"}
      [] s = "open_webui_url" -> {"OPEN_WEBUI_URL"}

\* the variable is set to a non-empty value
IsSet(e, n) == ~e.environ[n].isNone /\ e.environ[n].value # ""

\* the non-empty values held by the variables of a set
SetValues(e, names) == {e.environ[n].value : n \in {m \in names : IsSet(e, m)}}

\* the setting took the value of one of the variables
TakenFrom(e, ret, s, names) ==
    ~ret[s].isNone /\ ret[s].value \in SetValues(e, names)

\* C24: for each of the five settings, whenever a PROMPT_PIDGEON_ variable
\* for the setting is set to a non-empty value the setting takes its value
\* from a prefixed variable and never from an unprefixed one; an unprefixed
\* variable is used only when no prefixed variable for the setting is set.
C24_PrefixedFirst ==
    call.op = "EnvironmentSettings" =>
        \A s \in CredentialSettings :
            SetValues(call.env, PrefixedVars(s)) # {} =>
                TakenFrom(call.env, call.ret, s, PrefixedVars(s))

\* the prefixed variable wins over the unprefixed variable of the same name
\* (for langfuse_url: within the URL pair, and within the HOST pair when no
\* URL variable is set), and the unprefixed LANGFUSE_URL wins over
\* PROMPT_PIDGEON_LANGFUSE_HOST
C24_PrefixedFirstPerName ==
    call.op = "EnvironmentSettings" =>
        /\ \A s \in CredentialSettings \ {"langfuse_url"} :
              SetValues(call.env, PrefixedVars(s)) # {} =>
                  TakenFrom(call.env, call.ret, s, PrefixedVars(s))
        /\ IsSet(call.env, "PROMPT_PIDGEON_LANGFUSE_URL") =>
              TakenFrom(call.env, call.ret, "langfuse_url", {"PROMPT_PIDGEON_LANGFUSE_URL"})
        /\ (/\ IsSet(call.env, "PROMPT_PIDGEON_LANGFUSE_HOST")
            /\ ~IsSet(call.env, "PROMPT_PIDGEON_LANGFUSE_URL")
            /\ ~IsSet(call.env, "LANGFUSE_URL")) =>
              TakenFrom(call.env, call.ret, "langfuse_url", {"PROMPT_PIDGEON_LANGFUSE_HOST"})
        /\ (/\ IsSet(call.env, "LANGFUSE_URL")
            /\ ~IsSet(call.env, "PROMPT_PIDGEON_LANGFUSE_URL")) =>
              TakenFrom(call.env, call.ret, "langfuse_url", {"LANGFUSE_URL"})

\* C24 witness: the unprefixed URL is taken although the prefixed HOST is set
C24_Witness ==
    /\ call.op = "EnvironmentSettings"
    /\ call.env.environ["PROMPT_PIDGEON_LANGFUSE_HOST"] = Some("from PROMPT_PIDGEON_LANGFUSE_HOST")
    /\ call.env.environ["LANGFUSE_URL"] = Some("from LANGFUSE_URL")
    /\ call.ret.langfuse_url = Some("from LANGFUSE_URL")

UrlVars == {"PROMPT_PIDGEON_LANGFUSE_URL", "LANGFUSE_URL"}
HostVars == {"PROMPT_PIDGEON_LANGFUSE_HOST", "LANGFUSE_HOST"}

\* the URL variables come before the HOST variables, the prefixed HOST
\* before the unprefixed one
UrlBeforeHost(e, ret) ==
    /\ SetValues(e, UrlVars) # {} => TakenFrom(e, ret, "langfuse_url", UrlVars)
    /\ (SetValues(e, UrlVars) = {} /\ IsSet(e, "PROMPT_PIDGEON_LANGFUSE_HOST")) =>
          TakenFrom(e, ret, "langfuse_url", {"PROMPT_PIDGEON_LANGFUSE_HOST"})
    /\ (/\ SetValues(e, UrlVars) = {}
        /\ ~IsSet(e, "PROMPT_PIDGEON_LANGFUSE_HOST")
        /\ IsSet(e, "LANGFUSE_HOST")) =>
          TakenFrom(e, ret, "langfuse_url", {"LANGFUSE_HOST"})

-----------------------------------------------------------------------------
(* ConfigManager.load_config (models/config.py) *)

DefaultConfigPath == "prompt-pidgeon.yml"

\* ConfigManager(config_path): the path or its default, and the settings
\* read from the environment at construction
ConfigManager(config_path, e) ==
    [config_path |-> ArgOr(config_path, DefaultConfigPath),
     env_settings |-> EnvironmentSettings(e)]

\* the mapping yaml.safe_load returns: a top-level key is present or absent
ConfigData(version, sources, sinks, sync, log_level, max_concurrent_jobs, timeout_seconds) ==
    [version |-> version, sources |-> sources, sinks |-> sinks, sync |-> sync,
     log_level |-> log_level, max_concurrent_jobs |-> max_concurrent_jobs,
     timeout_seconds |-> timeout_seconds]

\* PidgeonConfig(**config_data): absent keys take the field defaults
PidgeonConfig_from_data(data) ==
    [version |-> ArgOr(data.version, "1"),
     sources |-> ArgOr(data.sources, <<>>),
     sinks |-> ArgOr(data.sinks, <<>>),
     sync |-> ArgOr(data.sync, <<>>),
     log_level |-> ArgOr(data.log_level, "INFO"),
     max_concurrent_jobs |-> ArgOr(data.max_concurrent_jobs, 5),
     timeout_seconds |-> ArgOr(data.timeout_seconds, 300)]

\* self.config_path.exists()
exists(e, path) == ~e.files[path].isNone

\* the outcome of a call: the exception raised (or None), whether the file
\* was opened and parsed, and the value returned (or None)
Outcome(raised, opened, parsed, ret) ==
    [raised |-> raised, opened |-> opened, parsed |-> parsed, ret |-> ret]

\* faulty variant: a missing file gives the default configuration
load_config_defaulted(self, e) ==
    IF ~exists(e, self.config_path)
    THEN Outcome(NoneVal, FALSE, FALSE, Some(PidgeonConfig(<<>>, <<>>, <<>>)))
    ELSE LET config_data == e.files[self.config_path].value
         IN  IF config_data.isNone
             THEN Outcome(Some("TypeError"), TRUE, TRUE, NoneVal)
             ELSE LET cfg == PidgeonConfig_from_data(config_data.value)
                  IN  Outcome(NoneVal, TRUE, TRUE,
                              Some(IF self.env_settings.log_level # "INFO"
                                   THEN [cfg EXCEPT !.log_level = self.env_settings.log_level]
                                   ELSE cfg))

\* faulty variant: the environment level always replaces the file's
load_config_always_override(self, e) ==
    IF ~exists(e, self.config_path)
    THEN Outcome(Some("FileNotFoundError"), FALSE, FALSE, NoneVal)
    ELSE LET config_data == e.files[self.config_path].value
         IN  IF config_data.isNone
             THEN Outcome(Some("TypeError"), TRUE, TRUE, NoneVal)
             ELSE LET cfg == PidgeonConfig_from_data(config_data.value)
                  IN  Outcome(NoneVal, TRUE, TRUE,
                              Some([cfg EXCEPT !.log_level = self.env_settings.log_level]))

\* ConfigManager.load_config
load_config(self, e) ==
    IF ~exists(e, self.config_path)
    THEN Outcome(Some("FileNotFoundError"), FALSE, FALSE, NoneVal)
    ELSE LET config_data == e.files[self.config_path].value
         IN  IF config_data.isNone
             THEN Outcome(Some("TypeError"), TRUE, TRUE, NoneVal)
             ELSE LET cfg == PidgeonConfig_from_data(config_data.value)
                  IN  Outcome(NoneVal, TRUE, TRUE,
                              Some(IF self.env_settings.log_level # "INFO"
                                   THEN [cfg EXCEPT !.log_level = self.env_settings.log_level]
                                   ELSE cfg))

-----------------------------------------------------------------------------
(* Specification SpecLoad: a ConfigManager is built, then load_config runs *)

ConfigPaths == {DefaultConfigPath, "custom.yml"}

\* what a configuration file parses to: an empty document (None), an empty
\* mapping, a full mapping, a mapping that says log_level: INFO
FileKinds == 1..4

FileData(k) ==
    CASE k = 1 -> NoneVal
      [] k = 2 -> Some(ConfigData(NoneVal, NoneVal, NoneVal, NoneVal, NoneVal,
                                  NoneVal, NoneVal))
      [] k = 3 -> Some(ConfigData(Some("2"), Some(<<Entry(Some("s1"), "x")>>),
                                  Some(<<Entry(Some("k1"), "x")>>),
                                  Some(<<SyncJobConfig("j1", "s1", "k1", TRUE)>>),
                                  Some("WARNING"), Some(9), Some(60)))
      [] k = 4 -> Some(ConfigData(Some("1"), NoneVal, NoneVal, NoneVal,
                                  Some("INFO"), NoneVal, Some(60)))

\* a file of kind k at the path, or no file for k = 0
File(k) == IF k = 0 THEN NoneVal ELSE Some(FileData(k))

LoadEnvNames ==
    {"PROMPT_PIDGEON_LOG_LEVEL", "LOG_LEVEL", "PROMPT_PIDGEON_DRY_RUN",
     "PROMPT_PIDGEON_CONFIG_FILE"}

InitLoad ==
    /\ \E S \in {T \in SUBSET LoadEnvNames : Cardinality(T) <= MaxEnvVars} :
       \E f \in [S -> 1..3], dotenv \in Dotenvs,
          k \in [ConfigPaths -> {0} \cup FileKinds] :
           env = [environ |-> Environ(S, f), dotenv |-> dotenv,
                  files |-> [p \in ConfigPaths |-> File(k[p])]]
    /\ prompt = NoneVal /\ tagFilter = NoneVal /\ call = NoCall
    /\ claude = NoneVal /\ cursor = NoneVal /\ filesystem = NoneVal
    /\ owuUser = NoneVal /\ owuModel = NoneVal
    /\ langfuse = NoneVal /\ universal = <<>> /\ issued = {}
    /\ sinkConfig = NoneVal /\ config = NoneVal
    /\ manager = NoneVal /\ script = NoneVal /\ requests = <<>>

NewConfigManager ==
    /\ manager.isNone
    /\ \E config_path \in {NoneVal, Some("custom.yml")} :
           manager' = Some(ConfigManager(config_path, env))
    /\ UNCHANGED <<prompt, tagFilter, call, adapterVars, langfuseVars, configVars,
                   script, requests>>

LoadConfig ==
    /\ ~manager.isNone
    /\ LET out == load_config(manager.value, env)
       IN  /\ call' = [op |-> "load_config", self |-> manager.value, env |-> env,
                       raised |-> out.raised, opened |-> out.opened,
                       parsed |-> out.parsed, ret |-> out.ret]
           /\ config' = IF out.raised.isNone THEN out.ret ELSE config
    /\ UNCHANGED <<prompt, tagFilter, adapterVars, langfuseVars, sinkConfig, env,
                   runVars>>

NextLoad == NewConfigManager \/ LoadConfig

SpecLoad == InitLoad /\ [][NextLoad]_vars

-----------------------------------------------------------------------------
(* Claims on load_config *)

\* C22: load_config on a path that does not exist fails with
\* FileNotFoundError before reading or parsing anything and returns no
\* configuration object.
C22_MissingFile ==
    (call.op = "load_config" /\ call.env.files[call.self.config_path].isNone) =>
        /\ call.raised = Some("FileNotFoundError")
        /\ ~call.opened /\ ~call.parsed
        /\ call.ret = NoneVal
        /\ config = NoneVal

\* C22 witness: the default path is missing while another file exists
C22_Witness ==
    /\ call.op = "load_config"
    /\ call.self.config_path = "prompt-pidgeon.yml"
    /\ call.env.files["prompt-pidgeon.yml"].isNone
    /\ ~call.env.files["custom.yml"].isNone
    /\ call.raised = Some("FileNotFoundError")

\* the value the file gives a field: the key's value, or the field default
FileValue(data, field, default) ==
    IF data[field].isNone THEN default ELSE data[field].value

-----------------------------------------------------------------------------
(* Claims on the adapters as a family *)

\* a step that (re)builds the adapter record x returns the same record for
\* the same arguments
SameForSameArgs(x, xNext) ==
    (~x.isNone /\ ~xNext.isNone /\ xNext.args = x.args) => xNext.value = x.value

-----------------------------------------------------------------------------
(* The end-to-end sync script (scripts/e2e-poc.py) *)

\* prompt names are sequences of segments; "user/" and "system/" are the
\* two prefixes the script looks for
PROMPT_PREFIX == "lf"
MODEL_PREFIX == "sme"

BaseModelConfig(full_name, short_name, is_active) ==
    [full_name |-> full_name, short_name |-> short_name, is_active |-> is_active]

get_base_model_configs ==
    <<BaseModelConfig("anthropic-claude-4-sonnet", "default", TRUE),
      BaseModelConfig("google-gemini-2.5-flash", "gemini-fast", TRUE),
      BaseModelConfig("google-gemini-2.5-pro", "gemini-pro", TRUE),
      BaseModelConfig("anthropic-claude-4-sonnet", "claude-fast", TRUE),
      BaseModelConfig("anthropic-claude-4-opus", "claude-pro", TRUE),
      BaseModelConfig("openai-gpt-4o", "openai-fast", FALSE),
      BaseModelConfig("openai-gpt-4.5-preview-2025-02-27", "openai-pro", TRUE),
      BaseModelConfig("mistral-8x7b-instruct", "mistral-fast", TRUE)>>

\* name.startswith(prefix) for a prefix that is one segment
startswith(name, prefix) == Len(name) > 0 /\ name[1] = prefix

\* name.replace(prefix, ''): every occurrence of the segment goes
RECURSIVE remove(_, _)
remove(name, seg) ==
    IF name = <<>> THEN <<>>
    ELSE IF Head(name) = seg THEN remove(Tail(name), seg)
    ELSE <<Head(name)>> \o remove(Tail(name), seg)

\* s.replace('/', '-') on one segment
dash(seg) ==
    IF seg = "/" THEN "-" ELSE IF seg = "user/" THEN "user-"
    ELSE IF seg = "system/" THEN "system-" ELSE seg

\* the text of a name: its segments in a row
RECURSIVE text(_)
text(name) == IF name = <<>> THEN "" ELSE Head(name) \o text(Tail(name))

\* command = f"/{PROMPT_PREFIX}-{prompt.name.replace('user/', '')}"
user_command(name) == "/" \o PROMPT_PREFIX \o "-" \o text(remove(name, "user/"))

\* model_id = f"{MODEL_PREFIX}-{prompt_base}-{short_name}"
model_id(name, base_model_config) ==
    LET stripped == remove(name, "system/")
        prompt_base == text([i \in DOMAIN stripped |-> dash(stripped[i])])
    IN  MODEL_PREFIX \o "-" \o prompt_base \o "-" \o base_model_config.short_name

IsUser(name) == startswith(name, "user/")
IsSystem(name) == ~startswith(name, "user/") /\ startswith(name, "system/")

\* faulty variant: a prompt without prefix is taken for a user prompt
filter_prompts_unprefixed_as_user(prompts) ==
    LET notSystem(name) == ~IsSystem(name)
    IN  [user_prompts |-> SelectSeq(prompts, notSystem),
         system_prompts |-> SelectSeq(prompts, IsSystem)]

\* filter_prompts_by_type
filter_prompts_by_type(prompts) ==
    [user_prompts |-> SelectSeq(prompts, IsUser),
     system_prompts |-> SelectSeq(prompts, IsSystem)]

\* one request: what was asked and of which item
Request(kind, target) == [kind |-> kind, target |-> target]

\* how a request can end: HTTP 200, HTTP 401, another error status, or an
\* exception raised by the client
Replies == {"200", "401", "500", "raise"}

Failed(reply) == reply # "200"

-----------------------------------------------------------------------------
(* Specification SpecScript: one run of main() of the end-to-end script *)

ScriptNames ==
    {<<"user/", "a">>, <<"system/", "b">>, <<"other">>,
     <<"system/", "user/", "c">>}

Run(pc, env_ok, remote, prompts, user_prompts, system_prompts, i, j, lastFailed) ==
    [pc |-> pc, env_ok |-> env_ok, remote |-> remote, prompts |-> prompts,
     user_prompts |-> user_prompts, system_prompts |-> system_prompts,
     i |-> i, j |-> j, lastFailed |-> lastFailed]

InitScript ==
    /\ \E env_ok \in BOOLEAN, remote \in SeqsUpTo(ScriptNames, MaxRemotePrompts) :
           script = Run("validate_env_vars", env_ok, remote, <<>>, <<>>, <<>>, 1, 1, 0)
    /\ requests = <<>>
    /\ prompt = NoneVal /\ tagFilter = NoneVal /\ call = NoCall
    /\ claude = NoneVal /\ cursor = NoneVal /\ filesystem = NoneVal
    /\ owuUser = NoneVal /\ owuModel = NoneVal
    /\ langfuse = NoneVal /\ universal = <<>> /\ issued = {}
    /\ sinkConfig = NoneVal /\ env = NoneVal /\ config = NoneVal
    /\ manager = NoneVal

\* where main() goes once the user prompt or model at (i, j) is done
AfterUser(run, i) ==
    IF i <= Len(run.user_prompts) THEN [run EXCEPT !.pc = "delete_prompt", !.i = i]
    ELSE IF run.system_prompts # <<>>
    THEN [run EXCEPT !.pc = "delete_model", !.i = 1, !.j = 1]
    ELSE [run EXCEPT !.pc = "completed"]

AfterModel(run, i, j) ==
    IF j <= Len(get_base_model_configs)
    THEN [run EXCEPT !.pc = "delete_model", !.i = i, !.j = j]
    ELSE IF i + 1 <= Len(run.system_prompts)
    THEN [run EXCEPT !.pc = "delete_model", !.i = i + 1, !.j = 1]
    ELSE [run EXCEPT !.pc = "completed"]

ScriptFrame ==
    UNCHANGED <<prompt, tagFilter, call, adapterVars, langfuseVars, configVars,
                manager>>

\* validate_env_vars: an assert per required variable
ValidateEnvVars ==
    /\ script.pc = "validate_env_vars"
    /\ script' = [script EXCEPT !.pc = IF script.env_ok THEN "list" ELSE "aborted"]
    /\ UNCHANGED requests
    /\ ScriptFrame

\* client.api.prompts.list() and the assert on its data
ListPrompts ==
    /\ script.pc = "list"
    /\ requests' = Append(requests, Request("langfuse list", ""))
    /\ \E reply \in {"200", "raise"} :
           script' = IF Failed(reply) \/ script.remote = <<>>
                     THEN [script EXCEPT !.pc = "aborted",
                                         !.lastFailed = Len(requests) + 1]
                     ELSE [script EXCEPT !.pc = "get_prompt", !.i = 1]
    /\ ScriptFrame

\* client.get_prompt(name) and the assert on its content
GetPrompt ==
    /\ script.pc = "get_prompt"
    /\ requests' = Append(requests,
                          Request("langfuse get", text(script.remote[script.i])))
    /\ \E reply \in {"200", "raise"} :
           script' = IF Failed(reply)
                     THEN [script EXCEPT !.pc = "aborted",
                                         !.lastFailed = Len(requests) + 1]
                     ELSE [script EXCEPT
                              !.prompts = Append(@, script.remote[script.i]),
                              !.i = @ + 1,
                              !.pc = IF script.i = Len(script.remote)
                                     THEN "filter" ELSE "get_prompt"]
    /\ ScriptFrame

\* filter_prompts_by_type, then sync_user_prompts begins
FilterPrompts ==
    /\ script.pc = "filter"
    /\ LET f == filter_prompts_by_type(script.prompts)
       IN  script' = AfterUser([script EXCEPT !.user_prompts = f.user_prompts,
                                              !.system_prompts = f.system_prompts],
                               1)
    /\ UNCHANGED requests
    /\ ScriptFrame

\* delete_openwebui_user_prompt: every status and every exception is
\* printed and the function returns
DeleteUserPrompt ==
    /\ script.pc = "delete_prompt"
    /\ requests' = Append(requests,
                          Request("DELETE prompt",
                                  user_command(script.user_prompts[script.i])))
    /\ \E reply \in Replies :
           script' = [script EXCEPT
                         !.pc = "create_prompt",
                         !.lastFailed = IF Failed(reply) THEN Len(requests) + 1 ELSE @]
    /\ ScriptFrame

\* the POST of create_openwebui_user_prompt and response.raise_for_status()
CreateUserPrompt ==
    /\ script.pc = "create_prompt"
    /\ requests' = Append(requests,
                          Request("POST prompt",
                                  user_command(script.user_prompts[script.i])))
    /\ \E reply \in Replies :
           script' = IF Failed(reply)
                     THEN [script EXCEPT !.pc = "aborted",
                                         !.lastFailed = Len(requests) + 1]
                     ELSE AfterUser(script, script.i + 1)
    /\ ScriptFrame

\* delete_openwebui_model: as for the user prompt
DeleteModel ==
    /\ script.pc = "delete_model"
    /\ requests' = Append(requests,
                          Request("DELETE model",
                                  model_id(script.system_prompts[script.i],
                                           get_base_model_configs[script.j])))
    /\ \E reply \in Replies :
           script' = [script EXCEPT
                         !.pc = "create_model",
                         !.lastFailed = IF Failed(reply) THEN Len(requests) + 1 ELSE @]
    /\ ScriptFrame

\* the POST of create_openwebui_system_model and response.raise_for_status()
CreateModel ==
    /\ script.pc = "create_model"
    /\ requests' = Append(requests,
                          Request("POST model",
                                  model_id(script.system_prompts[script.i],
                                           get_base_model_configs[script.j])))
    /\ \E reply \in Replies :
           script' = IF Failed(reply)
                     THEN [script EXCEPT !.pc = "aborted",
                                         !.lastFailed = Len(requests) + 1]
                     ELSE AfterModel(script, script.i, script.j + 1)
    /\ ScriptFrame

NextScript ==
    \/ ValidateEnvVars
    \/ ListPrompts
    \/ GetPrompt
    \/ FilterPrompts
    \/ DeleteUserPrompt
    \/ CreateUserPrompt
    \/ DeleteModel
    \/ CreateModel

SpecScript == InitScript /\ [][NextScript]_vars

-----------------------------------------------------------------------------
(* Claims about the end-to-end script *)

\* C27 (as stated): once any request of the run has failed -- a Langfuse
\* fetch, an Open-WebUI delete or an Open-WebUI create -- no further request
\* is issued and the run never prints its completion line.
C27_HardFail ==
    script.lastFailed > 0 =>
        /\ Len(requests) = script.lastFailed
        /\ script.pc # "completed"

IsOpenWebUI(request) ==
    request.kind \in {"DELETE prompt", "POST prompt", "DELETE model", "POST model"}

RECURSIVE UserRequests(_)
UserRequests(prompts) ==
    IF prompts = <<>> THEN <<>>
    ELSE (IF startswith(Head(prompts), "user/")
          THEN <<Request("DELETE prompt", user_command(Head(prompts))),
                 Request("POST prompt", user_command(Head(prompts)))>>
          ELSE <<>>) \o UserRequests(Tail(prompts))

RECURSIVE PerBaseModel(_, _)
PerBaseModel(name, k) ==
    IF k > Len(get_base_model_configs) THEN <<>>
    ELSE <<Request("DELETE model", model_id(name, get_base_model_configs[k])),
           Request("POST model", model_id(name, get_base_model_configs[k]))>>
         \o PerBaseModel(name, k + 1)

RECURSIVE ModelRequests(_)
ModelRequests(prompts) ==
    IF prompts = <<>> THEN <<>>
    ELSE (IF ~startswith(Head(prompts), "user/") /\ startswith(Head(prompts), "system/")
          THEN PerBaseModel(Head(prompts), 1)
          ELSE <<>>) \o ModelRequests(Tail(prompts))

IsPrefix(s, t) == Len(s) <= Len(t) /\ s = SubSeq(t, 1, Len(s))

-----------------------------------------------------------------------------
(* Specification SpecResolve: validation next to the lookups of each job *)

\* config.get_source_by_name(job.source) for a job of config.sync
ResolveSource ==
    /\ ~config.isNone
    /\ \E k \in DOMAIN config.value.sync :
           call' = [op |-> "get_source_by_name", self |-> config.value,
                    name |-> config.value.sync[k].source,
                    ret |-> get_source_by_name(config.value,
                                               config.value.sync[k].source)]
    /\ UNCHANGED <<prompt, tagFilter, adapterVars, langfuseVars, configVars, runVars>>

\* config.get_sink_by_name(job.sink) for a job of config.sync
ResolveSink ==
    /\ ~config.isNone
    /\ \E k \in DOMAIN config.value.sync :
           call' = [op |-> "get_sink_by_name", self |-> config.value,
                    name |-> config.value.sync[k].sink,
                    ret |-> get_sink_by_name(config.value,
                                             config.value.sync[k].sink)]
    /\ UNCHANGED <<prompt, tagFilter, adapterVars, langfuseVars, configVars, runVars>>

NextResolve == ValidateConfig \/ ResolveSource \/ ResolveSink

SpecResolve == InitJobs /\ [][NextResolve]_vars

\* ret is an entry named n and no other entry of the list is named n
OnlyNamed(entries, n, ret) ==
    \E i \in DOMAIN entries :
        /\ Named(entries, i, n)
        /\ ret = Some(entries[i])
        /\ \A j \in DOMAIN entries : j # i => ~Named(entries, j, n)

\* C29: when validate_config returns the empty list, the source lookup and
\* the sink lookup of every sync job return a configured entry, the only
\* one of that name; and whenever the lookup for a job's source or sink
\* returns None, validate_config returns a non-empty list.
C29_ValidConfigResolves ==
    /\ (call.op = "validate_config" /\ call.ret = <<>>) =>
          \A k \in DOMAIN call.config.sync :
              LET job == call.config.sync[k]
              IN  /\ OnlyNamed(call.config.sources, job.source,
                               get_source_by_name(call.config, job.source))
                  /\ OnlyNamed(call.config.sinks, job.sink,
                               get_sink_by_name(call.config, job.sink))
    /\ call.op = "get_source_by_name" =>
          /\ validate_config(call.self) = <<>> =>
                OnlyNamed(call.self.sources, call.name, call.ret)
          /\ call.ret = NoneVal => validate_config(call.self) # <<>>
    /\ call.op = "get_sink_by_name" =>
          /\ validate_config(call.self) = <<>> =>
                OnlyNamed(call.self.sinks, call.name, call.ret)
          /\ call.ret = NoneVal => validate_config(call.self) # <<>>

\* C29 witness: a configuration with two jobs and two sinks validates
\* clean and the sink of one of its jobs has just been looked up
C29_Witness ==
    /\ call.op = "get_sink_by_name"
    /\ validate_config(call.self) = <<>>
    /\ Len(call.self.sync) = 2
    /\ Len(call.self.sinks) = 2
    /\ call.ret = Some(Entry(Some("k1"), "x"))

-----------------------------------------------------------------------------
(* Specification SpecPairs: the adapters applied to two prompts *)

DotCursor == <<".", "c", "u", "r", "s", "o", "r">>
Rules == <<"r", "u", "l", "e", "s">>

\* CursorPrompt.get_file_path
CursorPrompt_get_file_path(self, project_path, e) ==
    LET base_path == IF ~project_path.isNone THEN project_path.value ELSE e.cwd
    IN  Path_truediv(Path_truediv(Path_truediv(base_path, DotCursor), Rules),
                     self.filename \o <<".", "m", "d", "c">>)

PairChars == {"A", "a", " ", "_", "-"}

PairNames ==
    SeqsUpTo(PairChars, MaxNameLen)
        \cup {<<"U+0130">>, <<"i", "U+0307">>, <<"/", "a">>}

\* the names the second prompt takes
PairPartners ==
    {<<>>, <<"a">>, <<"a", "-">>, <<"a", "_">>, <<"A", " ">>, <<"-", "a">>,
     <<"_", "_">>, <<"i", "U+0307">>, <<"/", "a">>}

InitPairs ==
    /\ \E n1 \in PairNames, n2 \in PairPartners :
           universal = <<Prompt("u0", n1, "text", <<>>), Prompt("u1", n2, "text", <<>>)>>
    /\ env = [home |-> Path(<<"/", "h">>), cwd |-> Path(<<"/", "w">>)]
    /\ prompt = NoneVal /\ tagFilter = NoneVal /\ call = NoCall
    /\ claude = NoneVal /\ cursor = NoneVal /\ filesystem = NoneVal
    /\ owuUser = NoneVal /\ owuModel = NoneVal
    /\ langfuse = NoneVal /\ issued = {"u0", "u1"}
    /\ sinkConfig = NoneVal /\ config = NoneVal
    /\ manager = NoneVal /\ script = NoneVal /\ requests = <<>>

PairFrame ==
    UNCHANGED <<prompt, tagFilter, adapterVars, langfuseVars, configVars, runVars>>

\* the record of one operation applied to both prompts with the same
\* arguments
PairCall(op, args, self, ret) ==
    [op |-> op, args |-> args, self |-> self, ret |-> ret]

ClaudePair ==
    /\ \E scope \in {SyncScope("global", NoneVal),
                     SyncScope("project", Some(<<"/", "p">>))} :
           LET made == [k \in 1..2 |->
                           ClaudeCodePrompt_from_universal_prompt(universal[k], scope)]
           IN  \/ call' = PairCall("ClaudeCodePrompt.from_universal_prompt",
                                   [scope |-> scope], universal,
                                   [k \in 1..2 |-> made[k].filename])
               \/ call' = PairCall("ClaudeCodePrompt.get_file_path",
                                   [scope |-> scope], made,
                                   [k \in 1..2 |->
                                       ClaudeCodePrompt_get_file_path(made[k], env)])
    /\ PairFrame

CursorPair ==
    /\ LET made == [k \in 1..2 |->
                       CursorPrompt_from_universal_prompt(universal[k], FALSE)]
       IN  \/ call' = PairCall("CursorPrompt.from_universal_prompt",
                               [always_apply |-> FALSE], universal,
                               [k \in 1..2 |-> made[k].filename])
           \/ \E project_path \in {NoneVal, Some(Path(<<"/", "p">>))} :
                  call' = PairCall("CursorPrompt.get_file_path",
                                   [project_path |-> project_path], made,
                                   [k \in 1..2 |->
                                       CursorPrompt_get_file_path(made[k],
                                                                  project_path, env)])
    /\ PairFrame

FilesystemPair ==
    /\ LET made == [k \in 1..2 |-> FilesystemPrompt_from_universal_prompt(universal[k])]
       IN  \/ call' = PairCall("FilesystemPrompt.from_universal_prompt",
                               <<>>, universal,
                               [k \in 1..2 |-> made[k].filename])
           \/ \E base_path \in SinkPaths :
                  call' = PairCall("FilesystemPrompt.get_file_path",
                                   [base_path |-> base_path], made,
                                   [k \in 1..2 |->
                                       FilesystemPrompt_get_file_path(made[k],
                                                                      base_path)])
    /\ PairFrame

OwuUserPair ==
    /\ \E command_prefix \in {NoneVal, Some(<<"x">>)} :
           call' = PairCall("OpenWebUIUserPrompt.from_universal_prompt",
                            [command_prefix |-> command_prefix], universal,
                            [k \in 1..2 |->
                                OpenWebUIUserPrompt_from_universal_prompt(
                                    universal[k],
                                    ArgOr(command_prefix, DefaultCommandPrefix)).command])
    /\ PairFrame

OwuModelPair ==
    /\ \E kw \in {[model_prefix |-> NoneVal, base_model_short |-> NoneVal],
                  [model_prefix |-> Some(<<"m">>), base_model_short |-> Some(<<"g">>)]} :
           call' = PairCall("OpenWebUIModel.from_universal_prompt", kw, universal,
                            [k \in 1..2 |->
                                OpenWebUIModel_from_universal_prompt(
                                    universal[k], "gpt-4",
                                    ArgOr(kw.model_prefix, DefaultModelPrefix),
                                    ArgOr(kw.base_model_short,
                                          DefaultBaseModelShort)).id])
    /\ PairFrame

NextPairs ==
    \/ ClaudePair
    \/ CursorPair
    \/ FilesystemPair
    \/ OwuUserPair
    \/ OwuModelPair

SpecPairs == InitPairs /\ [][NextPairs]_vars

\* a name after lowercasing, with space, underscore and hyphen made one
\* character
Folded(name) ==
    LET low == lower(name)
    IN  [i \in DOMAIN low |-> IF low[i] \in {" ", "_", "-"} THEN "separator"
                              ELSE low[i]]

DerivingOps ==
    {"ClaudeCodePrompt.from_universal_prompt", "CursorPrompt.from_universal_prompt",
     "FilesystemPrompt.from_universal_prompt",
     "OpenWebUIUserPrompt.from_universal_prompt",
     "OpenWebUIModel.from_universal_prompt"}

PathOps ==
    {"ClaudeCodePrompt.get_file_path", "CursorPrompt.get_file_path",
     "FilesystemPrompt.get_file_path"}

\* C30: two prompts with different names that are equal after lowercasing
\* and identifying space, underscore and hyphen get the same filename from
\* the ClaudeCode, Cursor and Filesystem adapters, the same target path
\* under the same base directory, and the same Open-WebUI command and model
\* id under the same prefixes; two prompts whose names differ in any other
\* way get different filenames, commands and model ids.
C30_ManyToOne ==
    LET n1 == universal[1].name
        n2 == universal[2].name
    IN  /\ (call.op \in DerivingOps /\ n1 # n2) =>
              (Folded(n1) = Folded(n2) <=> call.ret[1] = call.ret[2])
        /\ (call.op \in PathOps /\ n1 # n2 /\ Folded(n1) = Folded(n2)) =>
              call.ret[1] = call.ret[2]

\* C30 witness: 'A ' and 'a_' have been given the same model id
C30_Witness ==
    /\ call.op = "OpenWebUIModel.from_universal_prompt"
    /\ universal[1].name = <<"A", " ">>
    /\ universal[2].name = <<"a", "_">>
    /\ call.ret[1] = call.ret[2]
    /\ call.ret[1] = <<"s", "m", "e", "-", "a", "-", "-", "d", "e", "f", "a", "u", "l", "t">>

=============================================================================
